---- MODULE Spec2Model ----
(***************************************************************************)
(* Concept-Connector: the orchestration core (agents/orchestrator.py).     *)
(*                                                                         *)
(* One Orchestrator instance serving process_query calls one after the     *)
(* other.  The collaborators (path-finder, explainer, bias monitor,        *)
(* content reviewer, history store) are the environment: each call to one  *)
(* of them returns one of its possible outcomes, or raises.                *)
(*                                                                         *)
(* Text is a sequence of one-string elements (characters, or a literal     *)
(* fragment of a template standing for its characters); a dict is a        *)
(* function from its keys; an absent Python value is the function with     *)
(* the empty domain.  Durations and the free-text "detail" of a timeline   *)
(* entry are measurements and are left out of a timeline entry, which      *)
(* keeps its "stage" (and, for a regeneration, the retry and strategy its  *)
(* detail names).                                                          *)
(***************************************************************************)
EXTENDS Integers, Sequences, FiniteSets, TLC

VARIABLES
    cache,      \* _LRUCache._store: <<[key, value], ...>>, least recently used first
    metrics,    \* MetricsCollector
    requests,   \* RateLimiter.requests: admitted timestamps, oldest first
    now,        \* time.time()
    history,    \* what memory.save_interaction was given, one row per completed save
    q,          \* the frame of the process_query_async call in flight
    log,        \* completed calls, oldest first: what each returned or raised
    budget,     \* calls the driver may still start
    ops,        \* operations the driver may still make on the cache itself
    env,        \* the run's environment: the cache_size the orchestrator was
                \* built with, the calls the driver makes and the outcomes
                \* each collaborator can have
    heap,       \* the objects of a run that tells an object from its value:
                \* the cells, and the addresses the callers hold
    procs,      \* the callers of a run with several callers at once, each
                \* with its position
    db          \* the SQLite side: ConnectionPool and the rows of the tables

vars == <<cache, metrics, requests, now, history, q, log, budget, ops, env, heap, procs, db>>

----------------------------------------------------------------------------
(* Bounds of the model and constants of the program *)

MaxQueries == 3
CacheSize == 2
MaxOps == 4
NumCallers == 4
MaxTime == 4
TicksPerSecond == 2
NumThreads == 2
MaxPool == 2
MaxConns == 4
MaxRows == 3
MaxTexts == 2
MaxClock == 7
MaxDaysOld == 1
MAX_RETRIES == 2
max_requests == 10
time_window == 60

----------------------------------------------------------------------------
(* Inputs *)

Concepts == { <<"G", "r">>, <<"g", "R">>, <<"O", "r">> }
Levels == { <<"B">>, <<"b">>, <<"A">> }
Sessions == { "None", "s1" }

----------------------------------------------------------------------------
(* str.lower(), character by character *)

UpperToLower ==
    [c \in {"A", "B", "G", "O", "R"} |->
        CASE c = "A" -> "a" [] c = "B" -> "b" [] c = "G" -> "g"
          [] c = "O" -> "o" [] c = "R" -> "r"]

LowerChar(c) == IF c \in DOMAIN UpperToLower THEN UpperToLower[c] ELSE c

Lower(s) == [i \in DOMAIN s |-> LowerChar(s[i])]

\* variant: the level taken as given
CacheKeyOf_RawLevel(concept_a, concept_b, level) ==
    <<Lower(concept_a), Lower(concept_b), level>>

CacheKeyOf(concept_a, concept_b, level) ==
    LET level_key == Lower(level)
    IN  <<Lower(concept_a), Lower(concept_b), level_key>>

----------------------------------------------------------------------------
(* Text helpers *)

IsSpace(c) == c \in {" ", "\t", "\n"}

RECURSIVE LStrip(_)
LStrip(s) == IF s = <<>> THEN <<>>
             ELSE IF IsSpace(Head(s)) THEN LStrip(Tail(s)) ELSE s

RECURSIVE RStrip(_)
RStrip(s) == IF s = <<>> THEN <<>>
             ELSE IF IsSpace(s[Len(s)]) THEN RStrip(SubSeq(s, 1, Len(s) - 1)) ELSE s

Strip(s) == RStrip(LStrip(s))

Contains(text, part) ==
    \E i \in 0..(Len(text) - Len(part)) : SubSeq(text, i + 1, i + Len(part)) = part

----------------------------------------------------------------------------
(* Python values *)

PyNone == [py_none |-> TRUE]
EmptyDict == <<>>

\* bool(x) of a dict-or-None value
Truthy(v) == v # PyNone /\ DOMAIN v # {}

\* d.get(k, default)
Get(d, k, default) == IF k \in DOMAIN d THEN d[k] ELSE default

\* copy.deepcopy: a value equal to v that shares nothing with it
DeepCopy(v) == v

----------------------------------------------------------------------------
(* _LRUCache over an OrderedDict, oldest entry first *)

Keys(store) == { store[i].key : i \in DOMAIN store }

IndexOf(store, key) == CHOOSE i \in DOMAIN store : store[i].key = key

Without(store, i) == SubSeq(store, 1, i - 1) \o SubSeq(store, i + 1, Len(store))

\* OrderedDict.move_to_end(key)
MoveToEnd(store, key) ==
    LET i == IndexOf(store, key)
    IN  Append(Without(store, i), store[i])

\* OrderedDict.__setitem__: an existing key keeps its position
SetItem(store, key, value) ==
    IF key \in Keys(store)
    THEN [store EXCEPT ![IndexOf(store, key)].value = value]
    ELSE Append(store, [key |-> key, value |-> value])

\* OrderedDict.popitem(last=False)
PopOldest(store) == Tail(store)

\* variant: the value read at the front of the store
LRUGet_Oldest(store, key) ==
    IF key \notin Keys(store)
    THEN [value |-> PyNone, store |-> store]
    ELSE [value |-> DeepCopy(store[1].value), store |-> MoveToEnd(store, key)]

\* _LRUCache.get: the value returned and the store afterwards
LRUGet(store, key) ==
    IF key \notin Keys(store)
    THEN [value |-> PyNone, store |-> store]
    ELSE LET moved == MoveToEnd(store, key)
         IN  [value |-> DeepCopy(moved[Len(moved)].value), store |-> moved]

\* variant: a set that leaves the key where it was
LRUSet_NoTouch(store, key, value, maxsize) ==
    LET stored == SetItem(store, key, DeepCopy(value))
    IN  IF Len(stored) > maxsize THEN PopOldest(stored) ELSE stored

\* _LRUCache.set: the store afterwards
LRUSet(store, key, value, maxsize) ==
    LET stored == SetItem(store, key, DeepCopy(value))
        moved  == MoveToEnd(stored, key)
    IN  IF Len(moved) > maxsize THEN PopOldest(moved) ELSE moved

----------------------------------------------------------------------------
(* MetricsCollector *)

Stages == {"context", "connection", "narrative", "review"}

MetricsInit ==
    [ retry_counts            |-> <<>>,
      stage_durations         |-> [s \in {} |-> 0],
      cache_hits              |-> 0,
      cache_misses            |-> 0,
      mitigation_success_rate |-> <<>>,
      agent_failures          |-> [ connection_finder   |-> 0,
                                    explanation_builder |-> 0,
                                    bias_monitor        |-> 0,
                                    content_reviewer    |-> 0 ] ]

\* variant: the count without the success flag
record_retry_CountOnly(m, count, succeeded) ==
    [m EXCEPT !.retry_counts = Append(@, count)]

record_retry(m, count, succeeded) ==
    [m EXCEPT !.retry_counts = Append(@, count),
              !.mitigation_success_rate = Append(@, IF succeeded THEN 1 ELSE 0)]

record_cache_hit(m) == [m EXCEPT !.cache_hits = @ + 1]

record_cache_miss(m) == [m EXCEPT !.cache_misses = @ + 1]

\* stage_durations[stage] is the list of the samples of the stage, each a
\* number of hundredths of a second
record_stage_duration(m, stage, duration) ==
    [m EXCEPT !.stage_durations =
        IF stage \in DOMAIN @
        THEN [@ EXCEPT ![stage] = Append(@, duration)]
        ELSE [s \in (DOMAIN @) \cup {stage} |-> IF s = stage THEN <<duration>> ELSE @[s]]]

\* time.time() - stage_start where the clock does not move within a stage
Elapsed == 0

record_agent_failure(m, agent_name) ==
    IF agent_name \in DOMAIN m.agent_failures
    THEN [m EXCEPT !.agent_failures[agent_name] = @ + 1]
    ELSE m

\* round(n / d, 2), in hundredths; a tie goes to the even hundredth
Hundredths(n, d) ==
    LET down == (100 * n) \div d
        rest == 2 * ((100 * n) % d)
    IN  IF rest > d \/ (rest = d /\ down % 2 = 1) THEN down + 1 ELSE down

RECURSIVE Sum(_)
Sum(values) == IF values = <<>> THEN 0 ELSE Head(values) + Sum(Tail(values))

\* variant: the misses over the lookups
get_summary_MissRate(m) ==
    [ cache_hit_rate |->
          IF m.cache_hits + m.cache_misses > 0
          THEN Hundredths(m.cache_misses, m.cache_hits + m.cache_misses) ELSE 0,
      avg_retries |->
          IF m.retry_counts # <<>>
          THEN Hundredths(Sum(m.retry_counts), Len(m.retry_counts)) ELSE 0,
      mitigation_success_rate |->
          IF m.mitigation_success_rate # <<>>
          THEN Hundredths(Sum(m.mitigation_success_rate), Len(m.mitigation_success_rate))
          ELSE 0,
      avg_stage_durations |->
          [ stage \in DOMAIN m.stage_durations |->
                Hundredths(Sum(m.stage_durations[stage]), 100 * Len(m.stage_durations[stage])) ],
      agent_failures |-> m.agent_failures ]

\* MetricsCollector.get_summary: every number rounded to two places, in
\* hundredths
get_summary(m) ==
    [ cache_hit_rate |->
          IF m.cache_hits + m.cache_misses > 0
          THEN Hundredths(m.cache_hits, m.cache_hits + m.cache_misses) ELSE 0,
      avg_retries |->
          IF m.retry_counts # <<>>
          THEN Hundredths(Sum(m.retry_counts), Len(m.retry_counts)) ELSE 0,
      mitigation_success_rate |->
          IF m.mitigation_success_rate # <<>>
          THEN Hundredths(Sum(m.mitigation_success_rate), Len(m.mitigation_success_rate))
          ELSE 0,
      avg_stage_durations |->
          [ stage \in DOMAIN m.stage_durations |->
                Hundredths(Sum(m.stage_durations[stage]), 100 * Len(m.stage_durations[stage])) ],
      agent_failures |-> m.agent_failures ]

----------------------------------------------------------------------------
(* RateLimiter.acquire.  The clock moves only while a call sleeps in the    *)
(* limiter.                                                                *)

RECURSIVE Prune(_, _)
Prune(reqs, t) ==
    IF reqs # <<>> /\ Head(reqs) < t - env.time_window THEN Prune(Tail(reqs), t) ELSE reqs

SleepTime(reqs, t) == env.time_window - (t - Head(reqs))

\* variant: one request more than max_requests fits the window
MustSleep_OneMore(reqs, t) ==
    LET kept == Prune(reqs, t)
    IN  Len(kept) > env.max_requests /\ SleepTime(kept, t) > 0

MustSleep(reqs, t) ==
    LET kept == Prune(reqs, t)
    IN  Len(kept) >= env.max_requests /\ SleepTime(kept, t) > 0

Admit(reqs, t) == Append(Prune(reqs, t), t)

\* the limiter an Orchestrator constructs
Limiter == [max_requests |-> max_requests, time_window |-> time_window]

\* the stages that begin with rate_limiter.acquire()
Acquiring == {"connection", "narrative", "retry_narrative"}

----------------------------------------------------------------------------
(* RetryStrategy and the guidance given to a regeneration *)

EMPHASIS == "emphasis"
SIMPLIFICATION == "simplification"
RESTRUCTURE == "restructure"

\* variant: attempts counted from zero
_get_retry_strategy_ZeroBased(retry_count) ==
    IF retry_count = 0 THEN EMPHASIS
    ELSE IF retry_count = 1 THEN SIMPLIFICATION
    ELSE RESTRUCTURE

\* variant: the second attempt falls through to the last branch
_get_retry_strategy_NoSecond(retry_count) ==
    IF retry_count = 1 THEN EMPHASIS ELSE RESTRUCTURE

_get_retry_strategy(retry_count) ==
    IF retry_count = 1 THEN EMPHASIS
    ELSE IF retry_count = 2 THEN SIMPLIFICATION
    ELSE RESTRUCTURE

strategy_prefixes ==
    [ emphasis       |-> <<"CRITICAL: Address the following issues with high priority. ">>,
      simplification |-> <<"SIMPLIFY: Use simpler language and clearer structure. ">>,
      restructure    |-> <<"RESTRUCTURE: Completely reorganize the explanation with a fresh approach. ">> ]

\* sep.join(parts), parts a sequence of texts
RECURSIVE Join(_, _)
Join(sep, parts) ==
    IF parts = <<>> THEN <<>>
    ELSE IF Len(parts) = 1 THEN parts[1]
    ELSE parts[1] \o sep \o Join(sep, Tail(parts))

_compose_guidance_with_strategy(base_guidance, content_review, bias_review, strategy) ==
    LET prefix == Get(strategy_prefixes, strategy, <<>>)
        s1 == IF prefix # <<>> THEN <<prefix>> ELSE <<>>
        s2 == IF base_guidance # <<>> THEN Append(s1, base_guidance) ELSE s1
        s3 == IF Truthy(content_review) /\ Get(content_review, "suggested_actions", <<>>) # <<>>
              THEN Append(s2, <<"Reviewer actions: ">> \o Join(<<", ">>, content_review.suggested_actions))
              ELSE s2
        s4 == IF Truthy(bias_review) /\ Get(bias_review, "raw", <<>>) # <<>>
              THEN Append(s3, <<"Bias adjustments: ">> \o Join(<<" | ">>, bias_review.raw))
              ELSE s3
        joined == Join(<<" ">>, s4)
    IN  IF joined # <<>> THEN joined ELSE <<"Rewrite for clarity and inclusivity.">>

----------------------------------------------------------------------------
(* FeedbackAdapter.summarise with no stored feedback rows *)

summarise(feedback_rows, default_level) ==
    <<"Focus on clarity and discipline balance appropriate for a ">>
        \o default_level \o <<" learner.">>

----------------------------------------------------------------------------
(* The narrative stage behind its safe wrapper *)

EmptyExplanationText(concept_a, concept_b) ==
    <<"The connection between ">> \o concept_a \o <<" and ">> \o concept_b
        \o <<" involves shared principles that bridge these concepts through their underlying mechanisms.">>

FallbackExplanationText(concept_a, concept_b) ==
    <<"Unable to generate detailed explanation at this time. ">>
        \o concept_a \o <<" and ">> \o concept_b
        \o <<" are related through conceptual bridges.">>

\* variant: the validation without strip()
NoUsableContent_NoStrip(narrative) ==
    \/ "explanation" \notin DOMAIN narrative
    \/ narrative.explanation = <<>>

\* narrative.get("explanation") followed by the validation
\* "not explanations or not str(explanations).strip()"
NoUsableContent(narrative) ==
    \/ "explanation" \notin DOMAIN narrative
    \/ narrative.explanation = <<>>
    \/ Strip(narrative.explanation) = <<>>

\* variant: no except clause, the explainer's exception leaves the wrapper
_safe_generate_narrative_NoCatch(outcome, concept_a, concept_b) ==
    IF outcome.kind = "raise"
    THEN [ raised |-> TRUE, failed |-> FALSE ]
    ELSE LET narrative == IF Truthy(outcome.value) THEN outcome.value ELSE EmptyDict
             analogies == Get(narrative, "analogies", <<>>)
         IN  IF NoUsableContent(narrative)
             THEN [ explanations |-> EmptyExplanationText(concept_a, concept_b),
                    analogies    |-> analogies,
                    failed       |-> TRUE,
                    raised       |-> FALSE ]
             ELSE [ explanations |-> narrative.explanation,
                    analogies    |-> analogies,
                    failed       |-> FALSE,
                    raised       |-> FALSE ]

\* what _safe_generate_narrative does for one outcome of explainer.build:
\* what it returns, whether it recorded an explanation_builder failure, and
\* whether an exception left it (raised)
_safe_generate_narrative(outcome, concept_a, concept_b) ==
    IF outcome.kind = "raise"
    THEN [ explanations |-> FallbackExplanationText(concept_a, concept_b),
           analogies    |-> <<>>,
           failed       |-> TRUE,
           raised       |-> FALSE ]
    ELSE LET narrative == IF Truthy(outcome.value) THEN outcome.value ELSE EmptyDict
             analogies == Get(narrative, "analogies", <<>>)
         IN  IF NoUsableContent(narrative)
             THEN [ explanations |-> EmptyExplanationText(concept_a, concept_b),
                    analogies    |-> analogies,
                    failed       |-> TRUE,
                    raised       |-> FALSE ]
             ELSE [ explanations |-> narrative.explanation,
                    analogies    |-> analogies,
                    failed       |-> FALSE,
                    raised       |-> FALSE ]

----------------------------------------------------------------------------
(* Outcomes of the collaborators.  The n-th call of a query answers with   *)
(* text that names n, so that the pass a value comes from can be told.     *)

Digit == [n \in 1..9 |-> CASE n = 1 -> "1" [] n = 2 -> "2" [] n = 3 -> "3" [] n = 4 -> "4"
                           [] n = 5 -> "5" [] n = 6 -> "6" [] n = 7 -> "7" [] n = 8 -> "8"
                           [] n = 9 -> "9"]

Raises == [kind |-> "raise", tag |-> "raise"]
Returns(tag, v) == [kind |-> "return", tag |-> tag, value |-> v]

FindOutcomes(concept_a, concept_b) ==
    { Raises,
      Returns("path", [ path        |-> <<concept_a, concept_b>>,
                        disciplines |-> <<"cs", "math">>,
                        strength    |-> 9 ]) }

BuildOutcomes(n) ==
    { Raises,
      Returns("none", PyNone),
      Returns("empty", [explanation |-> <<>>, analogies |-> << <<"analogy ", Digit[n]>> >>]),
      Returns("blank", [explanation |-> <<" ", "\n">>, analogies |-> <<>>]),
      Returns("text", [explanation |-> <<"Explanation ", Digit[n]>>,
                       analogies   |-> << <<"analogy ", Digit[n]>> >>]) }

BiasOutcomes(n) ==
    { Raises,
      Returns("biased", [has_bias |-> TRUE, raw |-> << <<"Issue ", Digit[n]>> >>]),
      Returns("clean", [has_bias |-> FALSE, raw |-> <<>>]) }

ReviewOutcomes(n) ==
    { Raises,
      Returns("aligned", [level_alignment |-> TRUE, issues |-> <<>>, suggested_actions |-> <<>>]),
      Returns("misaligned", [level_alignment |-> FALSE, issues |-> << <<"Too dense ", Digit[n]>> >>,
                             suggested_actions |-> << <<"Shorten sentences">> >>]),
      Returns("unkeyed", [issues |-> <<>>, suggested_actions |-> <<>>]) }

SaveOutcomes == { Raises, Returns("saved", PyNone) }

\* the outcomes the environment of this run lets a collaborator have
Allowed(outcomes, tags) == { o \in outcomes : o.tag \in tags }

\* FairnessAuditor.evaluate is a function of its three arguments
evaluate(connection, explanations, analogies) ==
    [connection |-> connection, explanations |-> explanations, analogies |-> analogies]

----------------------------------------------------------------------------
(* Orchestrator.prepare_context *)

DefaultProfile(level) ==
    [ knowledge_level     |-> level,
      education_level     |-> "None",
      education_system    |-> "None",
      concept_a_knowledge |-> 0,
      concept_b_knowledge |-> 0 ]

\* ProfileService.get_profile for a session without a stored row
StoredProfile(session_id) ==
    [ session_id          |-> session_id,
      knowledge_level     |-> <<"intermediate">>,
      preferred_examples  |-> "None",
      education_level     |-> "None",
      education_system    |-> "None",
      concept_a_knowledge |-> 0,
      concept_b_knowledge |-> 0 ]

\* MemoryService.last_queries: the session's concept pairs, most recent first
RECURSIVE SessionPairs(_, _)
SessionPairs(rows, session_id) ==
    IF rows = <<>> THEN <<>>
    ELSE LET r    == rows[Len(rows)]
             rest == SessionPairs(SubSeq(rows, 1, Len(rows) - 1), session_id)
         IN  IF r.session_id = session_id
             THEN <<[concept_a |-> r.concept_a, concept_b |-> r.concept_b]>> \o rest
             ELSE rest

last_queries(rows, session_id, limit) ==
    LET all == SessionPairs(rows, session_id)
    IN  IF session_id = "None" THEN <<>>
        ELSE SubSeq(all, 1, IF Len(all) < limit THEN Len(all) ELSE limit)

\* a row of user_profiles, or the absence of one.  A text column holds a
\* text or is NULL ("None"); knowledge_level, which the code tests for
\* emptiness, holds a text or the empty text.
NoRow == [present |-> FALSE]

ProfileRows ==
    {NoRow} \cup
    [ present             : {TRUE},
      knowledge_level     : {<<>>, <<"b">>},
      preferred_examples  : {"None"},
      education_level     : {"None", "undergrad"},
      education_system    : {"None"},
      concept_a_knowledge : {0, 3},
      concept_b_knowledge : {0} ]

\* ProfileService.get_profile
get_profile(row, session_id) ==
    IF ~row.present THEN StoredProfile(session_id)
    ELSE [ session_id          |-> session_id,
           knowledge_level     |-> IF row.knowledge_level # <<>>
                                   THEN row.knowledge_level ELSE <<"intermediate">>,
           preferred_examples  |-> row.preferred_examples,
           education_level     |-> row.education_level,
           education_system    |-> row.education_system,
           concept_a_knowledge |-> row.concept_a_knowledge,
           concept_b_knowledge |-> row.concept_b_knowledge ]

\* a value of the overrides dict: None, or a value of whatever type
Given(v) == [value |-> v]

NoOverrides == EmptyDict

\* variant: dict.update(profile_overrides), None values included
update_WithNulls(profile, profile_overrides) ==
    [ k \in DOMAIN profile \cup DOMAIN profile_overrides |->
        IF k \in DOMAIN profile_overrides
        THEN IF profile_overrides[k] = PyNone THEN "None" ELSE profile_overrides[k].value
        ELSE profile[k] ]

\* profile.update({k: v for k, v in profile_overrides.items() if v is not None})
update(profile, profile_overrides) ==
    LET given == {k \in DOMAIN profile_overrides : profile_overrides[k] # PyNone}
    IN  [ k \in DOMAIN profile \cup given |->
            IF k \in given THEN profile_overrides[k].value ELSE profile[k] ]

prepare_context(rows, concept_a, concept_b, level, session_id, row, profile_overrides) ==
    LET hist     == IF session_id = "None" THEN <<>> ELSE last_queries(rows, session_id, 3)
        fetched  == IF session_id = "None" THEN DefaultProfile(level)
                    ELSE get_profile(row, session_id)
        profile  == IF DOMAIN profile_overrides # {}
                    THEN update(fetched, profile_overrides)
                    ELSE fetched
        guidance == summarise(<<>>, level)
    IN  [ history           |-> hist,
          level             |-> level,
          session_id        |-> session_id,
          concept_a         |-> concept_a,
          concept_b         |-> concept_b,
          profile           |-> profile,
          feedback_guidance |-> guidance ]

----------------------------------------------------------------------------
(* Orchestrator.process_query_async, one action per stretch of code        *)
(* between two suspension points                                           *)

Idle == [pc |-> "idle"]

NoCalls == [context |-> 0, find |-> 0, build |-> 0, bias |-> 0, review |-> 0, acquire |-> 0]

Called(frame, stage) == [frame EXCEPT !.calls[stage] = @ + 1]

\* variant: a verdict without level_alignment counts as misaligned
MitigationTriggered_DefaultFalse(bias_review, content_review) ==
    Get(bias_review, "has_bias", FALSE) \/ ~Get(content_review, "level_alignment", FALSE)

\* bias_review.get("has_bias") or not content_review.get("level_alignment", True)
MitigationTriggered(bias_review, content_review) ==
    Get(bias_review, "has_bias", FALSE) \/ ~Get(content_review, "level_alignment", TRUE)

\* the entry the driver's log keeps of a finished call: its arguments, what
\* it returned or which collaborator's exception left it, the calls it made,
\* what each explainer call did (builds) and the verdict pair of each review
\* pass (passes)
Finished(frame, outcome, result, raised_by, evicted) ==
    [ concept_a  |-> frame.concept_a,
      concept_b  |-> frame.concept_b,
      level      |-> frame.level,
      session_id |-> frame.session_id,
      cache_key  |-> frame.cache_key,
      hit        |-> frame.hit,
      outcome    |-> outcome,
      result     |-> result,
      raised_by  |-> raised_by,
      calls      |-> frame.calls,
      builds     |-> frame.builds,
      passes     |-> frame.passes,
      evicted    |-> evicted ]

\* an exception leaves process_query_async
Propagate(frame, stage) ==
    /\ log' = Append(log, Finished(frame, "exception", PyNone, stage, {}))
    /\ q' = Idle

\* lines 268-280: the cache lookup, and the hit or miss metric
StartQuery(concept_a, concept_b, level, session_id) ==
    /\ q.pc = "idle"
    /\ budget > 0
    /\ budget' = budget - 1
    /\ LET cache_key == CacheKeyOf(concept_a, concept_b, level)
           got       == LRUGet(cache, cache_key)
           frame     == [ concept_a  |-> concept_a,
                          concept_b  |-> concept_b,
                          level      |-> level,
                          session_id |-> session_id,
                          cache_key  |-> cache_key,
                          calls      |-> NoCalls,
                          builds     |-> <<>>,
                          passes     |-> <<>> ]
       IN  /\ cache' = got.store
           /\ IF Truthy(got.value)
              THEN /\ metrics' = record_cache_hit(metrics)
                   /\ q' = frame @@ [pc |-> "hit_save", hit |-> TRUE, cached |-> got.value]
              ELSE /\ metrics' = record_cache_miss(metrics)
                   /\ q' = frame @@ [pc |-> "context", hit |-> FALSE, timeline |-> <<>>]
    /\ UNCHANGED <<requests, now, history, log, ops, env, heap, procs, db>>

\* variant: a hit that returns without saving the interaction
HitSave_NoRecord(outcome) ==
    /\ q.pc = "hit_save"
    /\ IF outcome.kind = "raise"
       THEN Propagate(q, "save_interaction")
       ELSE /\ log' = Append(log, Finished(q, "result", q.cached, "nothing", {}))
            /\ q' = Idle
    /\ UNCHANGED <<cache, metrics, requests, now, history, budget, ops, env, heap, procs, db>>

\* variant: a hit returns the cached Result with its bias flag cleared
HitSave_FlagCleared(outcome) ==
    /\ q.pc = "hit_save"
    /\ IF outcome.kind = "raise"
       THEN /\ Propagate(q, "save_interaction")
            /\ UNCHANGED history
       ELSE LET served == [q.cached EXCEPT !.bias_flag = FALSE]
            IN  /\ history' = Append(history, [ session_id  |-> q.session_id,
                                                 concept_a   |-> q.concept_a,
                                                 concept_b   |-> q.concept_b,
                                                 result      |-> served ])
                /\ log' = Append(log, Finished(q, "result", served, "nothing", {}))
                /\ q' = Idle
    /\ UNCHANGED <<cache, metrics, requests, now, budget, ops, env, heap, procs, db>>

\* line 276-277: the interaction is saved and the cached copy returned
HitSave(outcome) ==
    /\ q.pc = "hit_save"
    /\ IF outcome.kind = "raise"
       THEN /\ Propagate(q, "save_interaction")
            /\ UNCHANGED history
       ELSE /\ history' = Append(history, [ session_id  |-> q.session_id,
                                            concept_a   |-> q.concept_a,
                                            concept_b   |-> q.concept_b,
                                            result      |-> q.cached ])
            /\ log' = Append(log, Finished(q, "result", q.cached, "nothing", {}))
            /\ q' = Idle
    /\ UNCHANGED <<cache, metrics, requests, now, budget, ops, env, heap, procs, db>>

\* lines 282-296
Context ==
    /\ q.pc = "context"
    /\ LET ctx == prepare_context(history, q.concept_a, q.concept_b, q.level, q.session_id,
                                  NoRow, NoOverrides)
       IN  q' = [Called(q, "context") EXCEPT !.pc = "connection",
                                             !.timeline = Append(@, [stage |-> "context"])]
                   @@ [ ctx      |-> ctx,
                        guidance |-> Get(ctx, "feedback_guidance", <<>>) ]
    /\ metrics' = record_stage_duration(metrics, "context", Elapsed)
    /\ UNCHANGED <<cache, requests, now, history, log, budget, ops, env, heap, procs, db>>

\* lines 298-309
Connection(outcome) ==
    /\ q.pc = "connection"
    /\ ~MustSleep(requests, now)
    /\ requests' = Admit(requests, now)
    /\ LET frame == Called(Called(q, "acquire"), "find")
       IN  IF outcome.kind = "raise"
           THEN /\ Propagate(frame, "connection_finder")
                /\ UNCHANGED metrics
           ELSE /\ q' = [frame EXCEPT !.pc = "narrative",
                                      !.timeline = Append(@, [stage |-> "connection"])]
                           @@ [ connections |-> outcome.value,
                                profile     |-> q.ctx.profile ]
                /\ metrics' = record_stage_duration(metrics, "connection", Elapsed)
                /\ UNCHANGED log
    /\ UNCHANGED <<cache, now, history, budget, ops, env, heap, procs, db>>

\* one pass through _safe_generate_narrative: the limiter, the explainer,
\* the failure metric
Generated(frame, outcome) ==
    _safe_generate_narrative(outcome, frame.concept_a, frame.concept_b)

\* variant: every pass of the wrapper counts a failure
CountFailure_Always(m, out) ==
    record_agent_failure(m, "explanation_builder")

CountFailure(m, out) ==
    IF out.failed THEN record_agent_failure(m, "explanation_builder") ELSE m

\* lines 311-330
Narrative(outcome) ==
    /\ q.pc = "narrative"
    /\ ~MustSleep(requests, now)
    /\ requests' = Admit(requests, now)
    /\ LET out   == Generated(q, outcome)
           frame == [Called(Called(q, "acquire"), "build") EXCEPT
                        !.builds = Append(@, outcome.tag)]
       IN  IF out.raised
           THEN /\ Propagate(frame, "explanation_builder")
                /\ UNCHANGED metrics
           ELSE /\ q' = [frame EXCEPT
                            !.pc = "review",
                            !.timeline = Append(@, [stage |-> "narrative"])]
                           @@ [ explanations |-> out.explanations,
                                analogies    |-> out.analogies ]
                /\ metrics' = record_stage_duration(CountFailure(metrics, out), "narrative", Elapsed)
                /\ UNCHANGED log
    /\ UNCHANGED <<cache, now, history, budget, ops, env, heap, procs, db>>

\* the bundle both reviews are started on
Bundle(frame) ==
    [ connections  |-> frame.connections,
      explanations |-> frame.explanations,
      analogies    |-> frame.analogies ]

\* asyncio.gather over the two reviews: the collaborators that raised
Raisers(bias_outcome, content_outcome) ==
    (IF bias_outcome.kind = "raise" THEN {"bias_monitor"} ELSE {})
        \cup (IF content_outcome.kind = "raise" THEN {"content_reviewer"} ELSE {})

\* fairness.evaluate(connections or {}, explanations, analogies)
FairnessOf(frame) ==
    evaluate(IF Truthy(frame.connections) THEN frame.connections ELSE EmptyDict,
             frame.explanations, frame.analogies)

\* lines 332-358
Review(bias_outcome, content_outcome) ==
    /\ q.pc = "review"
    /\ LET frame == Called(Called(q, "bias"), "review")
       IN  IF Raisers(bias_outcome, content_outcome) # {}
           THEN /\ \E who \in Raisers(bias_outcome, content_outcome) : Propagate(frame, who)
                /\ UNCHANGED metrics
           ELSE /\ q' = [frame EXCEPT !.pc = "loop",
                                      !.passes = Append(@, [ bias    |-> bias_outcome.value,
                                                             content |-> content_outcome.value ]),
                                      !.timeline = Append(@, [stage |-> "review"])]
                           @@ [ bias_review          |-> bias_outcome.value,
                                content_review       |-> content_outcome.value,
                                fairness_metrics     |-> FairnessOf(q),
                                mitigation_triggered |->
                                    MitigationTriggered(bias_outcome.value, content_outcome.value),
                                mitigation_guidance  |-> <<>>,
                                retry_count          |-> 0 ]
                /\ metrics' = record_stage_duration(metrics, "review", Elapsed)
                /\ UNCHANGED log
    /\ UNCHANGED <<cache, requests, now, history, budget, ops, env, heap, procs, db>>

\* the loop condition and the budget test
LoopExit(frame) == ~frame.mitigation_triggered

\* variants of the budget test: one retry too many, one too few
BudgetExhausted_Late(frame) == frame.retry_count > MAX_RETRIES

\* variant: two regenerations more than the budget
BudgetExhausted_SkipFirst(frame) == frame.retry_count >= MAX_RETRIES + 2

BudgetExhausted_Early(frame) == frame.retry_count >= MAX_RETRIES - 1

BudgetExhausted(frame) == frame.retry_count >= MAX_RETRIES

\* lines 360-376: the head of the mitigation loop
LoopHead ==
    /\ q.pc = "loop"
    /\ IF LoopExit(q)
       THEN /\ q' = [q EXCEPT !.pc = "assemble"]
            /\ UNCHANGED metrics
       ELSE IF BudgetExhausted(q)
       THEN /\ q' = [q EXCEPT !.pc = "assemble",
                              !.timeline = Append(@, [stage |-> "mitigation_aborted"])]
            /\ metrics' = record_retry(metrics, q.retry_count, FALSE)
       ELSE LET retry_count == q.retry_count + 1
                strategy    == _get_retry_strategy(retry_count)
            IN  /\ q' = [q EXCEPT
                            !.pc = "retry_narrative",
                            !.retry_count = retry_count,
                            !.mitigation_guidance =
                                _compose_guidance_with_strategy(
                                    q.guidance, q.content_review, q.bias_review, strategy)]
                /\ UNCHANGED metrics
    /\ UNCHANGED <<cache, requests, now, history, log, budget, ops, env, heap, procs, db>>

\* lines 378-394
RetryNarrative(outcome) ==
    /\ q.pc = "retry_narrative"
    /\ ~MustSleep(requests, now)
    /\ requests' = Admit(requests, now)
    /\ LET out   == Generated(q, outcome)
           frame == [Called(Called(q, "acquire"), "build") EXCEPT
                        !.builds = Append(@, outcome.tag)]
       IN  IF out.raised
           THEN /\ Propagate(frame, "explanation_builder")
                /\ UNCHANGED metrics
           ELSE /\ q' = [frame EXCEPT
                            !.pc = "retry_review",
                            !.explanations = out.explanations,
                            !.analogies = out.analogies,
                            !.timeline = Append(@, [ stage    |-> "narrative",
                                                     retry    |-> q.retry_count,
                                                     strategy |-> _get_retry_strategy(q.retry_count) ])]
                /\ metrics' = CountFailure(metrics, out)
                /\ UNCHANGED log
    /\ UNCHANGED <<cache, now, history, budget, ops, env, heap, procs, db>>

\* lines 396-422
RetryReview(bias_outcome, content_outcome) ==
    /\ q.pc = "retry_review"
    /\ LET frame     == Called(Called(q, "bias"), "review")
           triggered == MitigationTriggered(bias_outcome.value, content_outcome.value)
       IN  IF Raisers(bias_outcome, content_outcome) # {}
           THEN /\ \E who \in Raisers(bias_outcome, content_outcome) : Propagate(frame, who)
                /\ UNCHANGED metrics
           ELSE /\ q' = [frame EXCEPT
                            !.pc = IF triggered THEN "loop" ELSE "assemble",
                            !.passes = Append(@, [ bias    |-> bias_outcome.value,
                                                   content |-> content_outcome.value ]),
                            !.bias_review = bias_outcome.value,
                            !.content_review = content_outcome.value,
                            !.fairness_metrics = FairnessOf(q),
                            !.mitigation_triggered = triggered,
                            !.timeline = Append(@, [stage |-> "review", post_mitigation |-> TRUE])]
                /\ metrics' = IF triggered THEN metrics
                              ELSE record_retry(metrics, q.retry_count, TRUE)
                /\ UNCHANGED log
    /\ UNCHANGED <<cache, requests, now, history, budget, ops, env, heap, procs, db>>

\* variant: the metadata only for a regeneration that cleared the flags
MitigationMetadata_OnlyResolved(frame) ==
    IF frame.retry_count > 0 /\ ~frame.mitigation_triggered
    THEN [ mitigated           |-> TRUE,
           mitigation_guidance |-> frame.mitigation_guidance,
           retry_strategy_used |-> _get_retry_strategy(frame.retry_count) ]
    ELSE EmptyDict

\* lines 436-439: the mitigation metadata
MitigationMetadata(frame) ==
    IF frame.retry_count > 0
    THEN [ mitigated           |-> TRUE,
           mitigation_guidance |-> frame.mitigation_guidance,
           retry_strategy_used |-> _get_retry_strategy(frame.retry_count) ]
    ELSE EmptyDict

\* variant: the content review of the first pass
ResultOf_FirstVerdict(frame) ==
    [ connections       |-> frame.connections,
      explanations      |-> frame.explanations,
      analogies         |-> frame.analogies,
      bias_review       |-> Get(frame.bias_review, "raw", <<>>),
      bias_flag         |-> Get(frame.bias_review, "has_bias", FALSE),
      content_review    |-> frame.passes[1].content,
      fairness          |-> frame.fairness_metrics,
      feedback_guidance |-> frame.guidance,
      progress          |-> frame.timeline ] @@ MitigationMetadata(frame)

\* lines 424-439
ResultOf(frame) ==
    [ connections       |-> frame.connections,
      explanations      |-> frame.explanations,
      analogies         |-> frame.analogies,
      bias_review       |-> Get(frame.bias_review, "raw", <<>>),
      bias_flag         |-> Get(frame.bias_review, "has_bias", FALSE),
      content_review    |-> frame.content_review,
      fairness          |-> frame.fairness_metrics,
      feedback_guidance |-> frame.guidance,
      progress          |-> frame.timeline ] @@ MitigationMetadata(frame)

Assemble ==
    /\ q.pc = "assemble"
    /\ q' = [q EXCEPT !.pc = "save"] @@ [result |-> ResultOf(q)]
    /\ UNCHANGED <<cache, metrics, requests, now, history, log, budget, ops, env, heap, procs, db>>

\* variant: the cache written before the interaction is saved
Save_CacheFirst(outcome) ==
    /\ q.pc = "save"
    /\ cache' = LRUSet(cache, q.cache_key, q.result, env.cache_size)
    /\ IF outcome.kind = "raise"
       THEN /\ Propagate(q, "save_interaction")
            /\ UNCHANGED history
       ELSE /\ history' = Append(history, [ session_id  |-> q.session_id,
                                            concept_a   |-> q.concept_a,
                                            concept_b   |-> q.concept_b,
                                            result      |-> q.result ])
            /\ log' = Append(log, Finished(q, "result", q.result, "nothing",
                                           Keys(cache) \ Keys(cache')))
            /\ q' = Idle
    /\ UNCHANGED <<metrics, requests, now, budget, ops, env, heap, procs, db>>

\* lines 441-443
Save(outcome) ==
    /\ q.pc = "save"
    /\ IF outcome.kind = "raise"
       THEN /\ Propagate(q, "save_interaction")
            /\ UNCHANGED <<history, cache>>
       ELSE /\ history' = Append(history, [ session_id  |-> q.session_id,
                                            concept_a   |-> q.concept_a,
                                            concept_b   |-> q.concept_b,
                                            result      |-> q.result ])
            /\ cache' = LRUSet(cache, q.cache_key, q.result, env.cache_size)
            /\ log' = Append(log, Finished(q, "result", q.result, "nothing",
                                           Keys(cache) \ Keys(cache')))
            /\ q' = Idle
    /\ UNCHANGED <<metrics, requests, now, budget, ops, env, heap, procs, db>>

\* lines 96-101: at the limit, acquire sleeps until the oldest request is
\* time_window old and then starts over
Sleep ==
    /\ q.pc \in Acquiring
    /\ MustSleep(requests, now)
    /\ now' = now + SleepTime(Prune(requests, now), now)
    /\ UNCHANGED <<cache, metrics, requests, history, q, log, budget, ops, env, heap, procs, db>>

----------------------------------------------------------------------------
(* The two reviews of a pass as the two coroutines that asyncio.gather     *)
(* runs: they are created on the bundle of the pass, complete in either    *)
(* order, and gather hands back their results in the order of its          *)
(* arguments, or raises as soon as one of them raised.                     *)

Pending == [kind |-> "pending", tag |-> "pending"]

NoTasks == [ pass |-> 0, bias_bundle |-> EmptyDict, content_bundle |-> EmptyDict,
             bias |-> Pending, content |-> Pending, done |-> <<>> ]

\* the pass under review: the first is 1
PassOf(frame) == Len(frame.passes) + 1

\* the reviews of the current pass were created
Started == q.pc \in {"review", "retry_review"} /\ procs.pass = PassOf(q)

\* lines 326-341 and 390-405: the bundle and the two coroutines
ReviewStart ==
    /\ q.pc \in {"review", "retry_review"}
    /\ ~Started
    /\ procs' = [ pass           |-> PassOf(q),
                  bias_bundle    |-> Bundle(q),
                  content_bundle |-> Bundle(q),
                  bias           |-> Pending,
                  content        |-> Pending,
                  done           |-> <<>> ]
    /\ UNCHANGED <<cache, metrics, requests, now, history, q, log, budget, ops, env, heap, db>>

\* bias.review(bundle) completes
BiasReturns(outcome) ==
    /\ Started
    /\ procs.bias = Pending
    /\ procs' = [procs EXCEPT !.bias = outcome, !.done = Append(@, "bias_monitor")]
    /\ UNCHANGED <<cache, metrics, requests, now, history, q, log, budget, ops, env, heap, db>>

\* reviewer.evaluate(bundle, ...) completes
ContentReturns(outcome) ==
    /\ Started
    /\ procs.content = Pending
    /\ procs' = [procs EXCEPT !.content = outcome, !.done = Append(@, "content_reviewer")]
    /\ UNCHANGED <<cache, metrics, requests, now, history, q, log, budget, ops, env, heap, db>>

\* variant: the results in the order in which the reviews completed
Gathered_AsCompleted(tasks) ==
    IF Len(tasks.done) = 2 /\ tasks.done[1] = "content_reviewer"
    THEN <<tasks.content, tasks.bias>>
    ELSE <<tasks.bias, tasks.content>>

\* what gather hands back: the results in the order of its arguments
Gathered(tasks) == <<tasks.bias, tasks.content>>

\* the await of gather ends: both reviews completed, or one has raised
GatherEnds ==
    /\ Started
    /\ \/ Len(procs.done) = 2
       \/ procs.bias.kind = "raise"
       \/ procs.content.kind = "raise"
    /\ LET results == Gathered(procs)
       IN  \/ Review(results[1], results[2])
           \/ RetryReview(results[1], results[2])

----------------------------------------------------------------------------
(* FairnessAuditor, computed.  A text is the sequence of its characters.   *)
(* A value whose Python type the code inspects carries it in the name of  *)
(* its field; None is PyNone.  A ratio rounded to two places is the number *)
(* of its hundredths.                                                      *)

PyDict(d) == [dict |-> d]
PyList(l) == [list |-> l]
PyStr(s)  == [str |-> s]
IsA(kind, v) == kind \in DOMAIN v

\* the dict {} among dicts whose keys are strings
NoKeys == [k \in {} |-> 0]

\* str.split(): the words between runs of whitespace
RECURSIVE Split(_)
Split(s) ==
    LET t == LStrip(s)
        n == IF \E i \in DOMAIN t : IsSpace(t[i])
             THEN (CHOOSE i \in DOMAIN t : IsSpace(t[i]) /\ \A j \in 1..(i - 1) : ~IsSpace(t[j])) - 1
             ELSE Len(t)
    IN  IF t = <<>> THEN <<>>
        ELSE <<SubSeq(t, 1, n)>> \o Split(SubSeq(t, n + 1, Len(t)))

\* str.splitlines()
RECURSIVE SplitLines(_)
SplitLines(s) ==
    IF s = <<>> THEN <<>>
    ELSE IF \E i \in DOMAIN s : s[i] = "\n"
         THEN LET n == CHOOSE i \in DOMAIN s : s[i] = "\n" /\ \A j \in 1..(i - 1) : s[j] # "\n"
              IN  <<SubSeq(s, 1, n - 1)>> \o SplitLines(SubSeq(s, n + 1, Len(s)))
         ELSE <<s>>

\* str.strip(chars)
RECURSIVE StripChars(_, _)
StripChars(s, chars) ==
    IF s = <<>> THEN <<>>
    ELSE IF Head(s) \in chars THEN StripChars(Tail(s), chars)
    ELSE IF s[Len(s)] \in chars THEN StripChars(SubSeq(s, 1, Len(s) - 1), chars)
    ELSE s

Punctuation == {".", ",", ";", ":", "!", "?", "(", ")"}

\* lines 11-21; round(distinct / total, 2) if total else 0.0
_discipline_diversity(connection) ==
    LET given       == IF IsA("dict", connection)
                       THEN Get(connection.dict, "disciplines", <<>>) ELSE <<>>
        disciplines == [i \in DOMAIN SelectSeq(given, LAMBDA d : d # <<>>) |->
                            Lower(SelectSeq(given, LAMBDA d : d # <<>>)[i])]
        total       == Len(disciplines)
        distinct    == Cardinality({disciplines[i] : i \in DOMAIN disciplines})
    IN  [ label  |-> "Discipline diversity",
          value  |-> IF total # 0 THEN Hundredths(distinct, total) ELSE 0,
          detail |-> IF total # 0
                     THEN [text |-> "unique disciplines across steps", n |-> distinct, of |-> total]
                     ELSE [text |-> "No disciplines supplied"] ]

\* lines 24-52
_language_accessibility(explanations) ==
    LET text  == IF IsA("list", explanations) THEN Join(<<" ">>, explanations.list)
                 ELSE explanations.str
        split == Split(text)
        words == [i \in DOMAIN split |-> Lower(StripChars(split[i], Punctuation))]
        short_words == Cardinality({i \in DOMAIN words : Len(words[i]) <= 6})
    IN  IF explanations \in {PyNone, PyStr(<<>>), PyList(<<>>)}
        THEN [ label |-> "Language accessibility", value |-> 0,
               detail |-> [text |-> "No explanation text available"] ]
        ELSE IF words = <<>>
        THEN [ label |-> "Language accessibility", value |-> 0,
               detail |-> [text |-> "Explanation was empty"] ]
        ELSE [ label |-> "Language accessibility",
               value |-> Hundredths(short_words, Len(words)),
               detail |-> [text |-> "words are short (<=6 chars)", n |-> short_words, of |-> Len(words)] ]

\* lines 55-84
_analogy_variety(analogies) ==
    LET kept  == IF IsA("str", analogies)
                 THEN SelectSeq(SplitLines(analogies.str), LAMBDA line : Strip(line) # <<>>)
                 ELSE SelectSeq(analogies.list, LAMBDA item : item # <<>>)
        lines == [i \in DOMAIN kept |-> StripChars(kept[i], {"-", " "})]
        worded == SelectSeq(lines, LAMBDA line : Split(line) # <<>>)
        starters == {Lower(Split(worded[i])[1]) : i \in DOMAIN worded}
        unique == Cardinality(starters)
    IN  IF analogies \in {PyNone, PyStr(<<>>), PyList(<<>>)} \/ lines = <<>>
        THEN [ label |-> "Analogy variety", value |-> 0,
               detail |-> [text |-> "No analogies generated"] ]
        ELSE [ label |-> "Analogy variety",
               value |-> Hundredths(unique, Len(lines)),
               detail |-> [text |-> "unique starting metaphors across analogies",
                           n |-> unique, of |-> Len(lines)] ]

\* variant: the values added up
Mean_Total(values) == values[1] + values[2] + values[3]

\* round(sum(valid_values) / len(valid_values), 2) of values in hundredths
Mean(values) ==
    LET total == values[1] + values[2] + values[3]
        down  == total \div 3
        rest  == 2 * (total % 3)
    IN  IF rest > 3 THEN down + 1 ELSE down

\* FairnessAuditor.evaluate, lines 86-105
FairnessAuditor_evaluate(connection, explanations, analogies) ==
    LET base_connection ==
            IF IsA("list", connection) /\ connection.list # <<>> THEN connection.list[1]
            ELSE IF ~IsA("dict", connection) THEN PyDict(NoKeys)
            ELSE connection
        audited == << _discipline_diversity(base_connection),
                      _language_accessibility(explanations),
                      _analogy_variety(analogies) >>
    IN  [ overall |-> Mean(<<audited[1].value, audited[2].value, audited[3].value>>),
          metrics |-> audited ]

\* what the auditor is given
AuditedConnections ==
    { PyDict(NoKeys),
      PyNone,
      PyDict([disciplines |-> <<>>]),
      PyDict([disciplines |-> << <<"G", "r">>, <<"g", "r">>, <<"O">> >>]),
      PyDict([disciplines |-> << <<"G">>, <<>> >>]),
      PyList(<<>>),
      PyList(<< PyStr(<<"a">>) >>),
      PyList(<< PyDict([disciplines |-> << <<"a">>, <<"b">>, <<"b">> >>]) >>) }

AuditedExplanations ==
    { PyStr(<<>>),
      PyNone,
      PyStr(<<" ", "\n">>),
      PyStr(<<"a", "b", " ", "(", "G", "r", "a", "d", "i", "e", "n", "t", ")", ".">>),
      PyStr(<<"G", "r", "a", "d", "i", "e", "n", "t", " ", "d", "e", "s", "c", "e", "n", "t", "s">>),
      PyStr(<<"a", " ", "b", " ", "G", "r", "a", "d", "i", "e", "n", "t">>),
      PyList(<< <<"a", ".">>, <<"O", "r">> >>),
      PyList(<<>>) }

AuditedAnalogies ==
    { PyList(<<>>),
      PyNone,
      PyList(<< <<"-">> >>),
      PyList(<< <<"-", " ", "A", " ", "r">>, <<"a", " ", "b">>, <<"B", " ", "o">>, <<>> >>),
      PyStr(<<"-", " ", "a", "\n", " ", "\n", "b", " ", "r">>),
      PyStr(<<>>) }

\* fairness.evaluate called once
Audit(connection, explanations, analogies) ==
    /\ q.pc = "idle"
    /\ ops > 0
    /\ ops' = ops - 1
    /\ log' = << [ outcome      |-> "audit",
                   connection   |-> connection,
                   explanations |-> explanations,
                   analogies    |-> analogies,
                   report       |-> FairnessAuditor_evaluate(connection, explanations, analogies) ] >>
    /\ UNCHANGED <<cache, metrics, requests, now, history, q, budget, env, heap, procs, db>>

----------------------------------------------------------------------------
(* A MetricsCollector used on its own, as test_metrics_collector does.     *)

Durations == {150, 200}

Agents == {"bias_monitor", "narrator"}

Recorded(m) ==
    /\ q.pc = "idle"
    /\ ops > 0
    /\ ops' = ops - 1
    /\ metrics' = m
    /\ UNCHANGED <<cache, requests, now, history, q, log, budget, env, heap, procs, db>>

RecordHit == Recorded(record_cache_hit(metrics))

RecordMiss == Recorded(record_cache_miss(metrics))

RecordRetry(count, succeeded) == Recorded(record_retry(metrics, count, succeeded))

RecordStage(stage, duration) == Recorded(record_stage_duration(metrics, stage, duration))

RecordFailure(agent_name) == Recorded(record_agent_failure(metrics, agent_name))

\* summary = metrics.get_summary()
GetSummary ==
    /\ q.pc = "idle"
    /\ log' = << [ outcome |-> "summary",
                   of      |-> metrics,
                   summary |-> get_summary(metrics) ] >>
    /\ UNCHANGED <<cache, metrics, requests, now, history, q, budget, ops, env, heap, procs, db>>

----------------------------------------------------------------------------
(* _compose_guidance_with_strategy called on its own *)

Guidances == { <<>>, <<"Focus on clarity.">>, <<"Use examples; ", "avoid jargon.">> }

ContentReviews ==
    { NoKeys,
      [suggested_actions |-> <<>>],
      [suggested_actions |-> << <<"Shorten sentences">> >>],
      [suggested_actions |-> << <<"Shorten sentences">>, <<"Define terms">> >>] }

BiasReviews ==
    { NoKeys,
      [raw |-> <<>>],
      [raw |-> << <<"Gendered example">> >>],
      [raw |-> << <<"Gendered example">>, <<"Western-centric">> >>] }

Compose(base_guidance, content_review, bias_review, strategy) ==
    /\ q.pc = "idle"
    /\ ops > 0
    /\ ops' = ops - 1
    /\ log' = << [ outcome        |-> "guidance",
                   base_guidance  |-> base_guidance,
                   content_review |-> content_review,
                   bias_review    |-> bias_review,
                   strategy       |-> strategy,
                   returned       |-> _compose_guidance_with_strategy(
                                          base_guidance, content_review, bias_review, strategy) ] >>
    /\ UNCHANGED <<cache, metrics, requests, now, history, q, budget, env, heap, procs, db>>

----------------------------------------------------------------------------
(* The stages that parse the text of the model.  A text is the sequence of *)
(* its tokens: the punctuation of JSON, literals, quoted strings, words    *)
(* and blanks.  A parsed value carries its Python type as the values the   *)
(* fairness auditor is given do.                                           *)

PyBool(b) == [bool |-> b]
PyInt(n)  == [int |-> n]

\* bool(v)
PyTruthy(v) ==
    CASE IsA("dict", v) -> DOMAIN v.dict # {}
      [] IsA("list", v) -> v.list # <<>>
      [] IsA("str", v)  -> v.str # <<>>
      [] IsA("bool", v) -> v.bool
      [] IsA("int", v)  -> v.int # 0
      [] OTHER          -> FALSE

\* the tokens that are a JSON scalar, with the value json.loads gives them
ScalarOf ==
    [ t \in { "true", "false", "null", "1", "\"fine\"", "\"x\"", "\"Plain words\"",
              "\"has_bias\"", "\"reasons\"", "\"level_alignment\"", "\"explanation_markdown\"",
              "\"analogies\"", "\"connections\"", "\"path\"", "\"response\"" } |->
        CASE t = "true"  -> PyBool(TRUE)
          [] t = "false" -> PyBool(FALSE)
          [] t = "null"  -> PyNone
          [] t = "1"     -> PyInt(1)
          [] t = "\"fine\"" -> PyStr(<<"fine">>)
          [] t = "\"x\"" -> PyStr(<<"x">>)
          [] t = "\"Plain words\"" -> PyStr(<<"Plain", " ", "words">>)
          [] t = "\"has_bias\"" -> PyStr(<<"has_bias">>)
          [] t = "\"reasons\"" -> PyStr(<<"reasons">>)
          [] t = "\"level_alignment\"" -> PyStr(<<"level_alignment">>)
          [] t = "\"explanation_markdown\"" -> PyStr(<<"explanation_markdown">>)
          [] t = "\"analogies\"" -> PyStr(<<"analogies">>)
          [] t = "\"connections\"" -> PyStr(<<"connections">>)
          [] t = "\"path\"" -> PyStr(<<"path">>)
          [] t = "\"response\"" -> PyStr(<<"response">>) ]

IsQuoted(t) == t \in DOMAIN ScalarOf /\ IsA("str", ScalarOf[t])

Parsed(v, rest) == [ok |-> TRUE, value |-> v, rest |-> rest]
NotParsed == [ok |-> FALSE]

\* d[k] = v
WithKey(d, k, v) == [key \in DOMAIN d \cup {k} |-> IF key = k THEN v ELSE d[key]]

\* the JSON grammar over the tokens
RECURSIVE ParseValue(_)
RECURSIVE ParseMembers(_, _)
RECURSIVE ParseElements(_, _)
ParseValue(t) ==
    IF t = <<>> THEN NotParsed
    ELSE IF Head(t) \in DOMAIN ScalarOf THEN Parsed(ScalarOf[Head(t)], Tail(t))
    ELSE IF Head(t) = "{"
         THEN IF Len(t) >= 2 /\ t[2] = "}" THEN Parsed(PyDict(NoKeys), SubSeq(t, 3, Len(t)))
              ELSE ParseMembers(Tail(t), NoKeys)
    ELSE IF Head(t) = "["
         THEN IF Len(t) >= 2 /\ t[2] = "]" THEN Parsed(PyList(<<>>), SubSeq(t, 3, Len(t)))
              ELSE ParseElements(Tail(t), <<>>)
    ELSE NotParsed

ParseMembers(t, members) ==
    IF Len(t) < 3 THEN NotParsed
    ELSE IF ~IsQuoted(t[1]) \/ t[2] # ":" THEN NotParsed
    ELSE LET v == ParseValue(SubSeq(t, 3, Len(t)))
         IN  IF ~v.ok THEN NotParsed
             ELSE IF v.rest = <<>> THEN NotParsed
             ELSE IF Head(v.rest) = "}"
                  THEN Parsed(PyDict(WithKey(members, ScalarOf[t[1]].str[1], v.value)), Tail(v.rest))
             ELSE IF Head(v.rest) = ","
                  THEN ParseMembers(Tail(v.rest), WithKey(members, ScalarOf[t[1]].str[1], v.value))
             ELSE NotParsed

ParseElements(t, elements) ==
    LET v == ParseValue(t)
    IN  IF ~v.ok THEN NotParsed
        ELSE IF v.rest = <<>> THEN NotParsed
        ELSE IF Head(v.rest) = "]" THEN Parsed(PyList(Append(elements, v.value)), Tail(v.rest))
        ELSE IF Head(v.rest) = "," THEN ParseElements(Tail(v.rest), Append(elements, v.value))
        ELSE NotParsed

Raised(error) == [raised |-> TRUE, error |-> error]
Returned_(v) == [raised |-> FALSE, value |-> v]

\* json.loads(text): blanks between the tokens do not count
json_loads(text) ==
    LET parse == ParseValue(SelectSeq(text, LAMBDA t : ~IsSpace(t)))
    IN  IF parse.ok /\ parse.rest = <<>> THEN Returned_(parse.value)
        ELSE Raised("JSONDecodeError")

\* the place of the "}" that closes the "{" at start, or 0
RECURSIVE Closing(_, _, _)
Closing(text, i, brace_count) ==
    IF i > Len(text) THEN 0
    ELSE LET count == brace_count + (IF text[i] = "{" THEN 1 ELSE IF text[i] = "}" THEN -1 ELSE 0)
         IN  IF text[i] = "}" /\ count = 0 THEN i ELSE Closing(text, i + 1, count)

\* text_formatter.extract_json: a dict or None; "<fence json>" and "<fence>"
\* are the two code fences of markdown
extract_json(text) ==
    IF ~IsA("str", text) \/ text.str = <<>> THEN PyNone
    ELSE LET unfenced == Strip(SelectSeq(text.str, LAMBDA t : t \notin {"<fence json>", "<fence>"}))
             opens    == { i \in DOMAIN unfenced : unfenced[i] = "{" }
         IN  IF opens = {} THEN PyNone
             ELSE LET start == CHOOSE i \in opens : \A j \in opens : i <= j
                      end   == Closing(unfenced, start, 0)
                  IN  IF end = 0 THEN PyNone
                      ELSE LET loaded == json_loads(SubSeq(unfenced, start, end))
                           IN  IF loaded.raised THEN PyNone ELSE loaded.value

\* text_formatter.format_llm_output; the markdown of a text is rendered as
\* one paragraph
format_llm_output(raw_text, as_list) ==
    IF ~PyTruthy(raw_text) THEN Returned_(IF as_list THEN PyList(<<>>) ELSE PyStr(<<>>))
    ELSE IF ~IsA("str", raw_text) THEN Raised("AttributeError")
    ELSE IF as_list
         THEN Returned_(PyList(IF Strip(raw_text.str) = <<>> THEN <<>>
                                ELSE << PyStr(Strip(raw_text.str)) >>))
         ELSE Returned_(PyStr(<<"<p>">> \o Strip(raw_text.str) \o <<"</p>">>))

\* d.get(k, default) of a parsed dict
PyGet(d, k, default) == IF k \in DOMAIN d.dict THEN d.dict[k] ELSE default

\* d.setdefault(k, default)
SetDefault(d, k, default) == IF k \in DOMAIN d THEN d ELSE WithKey(d, k, default)

\* content_reviewer._safe_json_parse
_safe_json_parse(text) ==
    LET loaded == json_loads(text.str)
    IN  IF loaded.raised
        THEN PyDict([ level_alignment   |-> PyBool(FALSE),
                      reading_level     |-> PyStr(<<"unknown">>),
                      issues            |-> PyList(<< PyStr(Strip(text.str)) >>),
                      suggested_actions |->
                          PyList(<< PyStr(<<"Rewrite to match the requested learner level.">>) >>),
                      bias_risk         |-> PyStr(<<"unknown">>) ])
        ELSE loaded.value

\* ContentReviewer.evaluate on the text the model returned
ContentReviewer_evaluate(text) ==
    LET parsed == _safe_json_parse(text)
    IN  IF ~IsA("dict", parsed) THEN Raised("AttributeError")
        ELSE Returned_(PyDict(
                 SetDefault(SetDefault(SetDefault(SetDefault(SetDefault(parsed.dict,
                     "level_alignment", PyBool(TRUE)),
                     "reading_level", PyStr(<<"unknown">>)),
                     "issues", PyList(<<>>)),
                     "suggested_actions", PyList(<<>>)),
                     "bias_risk", PyStr(<<"unknown">>))))

\* BiasMonitor.review on the text the model returned
BiasMonitor_review(text) ==
    LET parsed == extract_json(text)
        listed == format_llm_output(text, TRUE)
    IN  IF PyTruthy(parsed) /\ IsA("dict", parsed)
        THEN Returned_(PyDict([ has_bias |-> PyGet(parsed, "has_bias", PyBool(FALSE)),
                                raw      |-> PyGet(parsed, "reasons",
                                                 PyList(<< PyStr(<<"Structured JSON parsed.">>) >>)) ]))
        ELSE IF listed.raised THEN listed
        ELSE Returned_(PyDict([ has_bias |->
                                    PyBool(Contains(SelectSeq(text.str, LAMBDA t : t # " "),
                                                    <<"bias:", " ", "true">>)),
                                raw      |-> listed.value ]))

\* ExplanationBuilder._extract_payload of a str: a dict, or what
\* extract_json returned
_extract_payload(raw_text) ==
    LET outer     == json_loads(raw_text.str)
        candidate == IF outer.raised THEN raw_text
                     ELSE IF IsA("dict", outer.value) /\ "response" \in DOMAIN outer.value.dict
                          THEN outer.value.dict["response"]
                     ELSE outer.value
    IN  IF raw_text.str = <<>> THEN PyDict(NoKeys)
        ELSE IF IsA("str", candidate) THEN extract_json(candidate)
        ELSE IF IsA("dict", candidate) THEN candidate
        ELSE PyDict(NoKeys)

\* ExplanationBuilder._normalise_analogies
_normalise_analogies(raw_analogies) ==
    IF IsA("list", raw_analogies)
    THEN Returned_(PyList(SelectSeq(raw_analogies.list, LAMBDA item : IsA("str", item) => Strip(item.str) # <<>>)))
    ELSE IF IsA("str", raw_analogies) THEN format_llm_output(raw_analogies, TRUE)
    ELSE Returned_(PyList(<<>>))

\* ExplanationBuilder.build on the text the model returned
ExplanationBuilder_build(text) ==
    LET payload == _extract_payload(text)
    IN  IF ~IsA("dict", payload) THEN Raised("AttributeError")
        ELSE LET first    == PyGet(payload, "explanation_markdown", PyNone)
                 second   == PyGet(payload, "explanation", PyNone)
                 explanation_markdown ==
                     IF PyTruthy(first) THEN first
                     ELSE IF PyTruthy(second) THEN second ELSE PyStr(<<>>)
                 analogies == _normalise_analogies(PyGet(payload, "analogies", PyNone))
                 explanation_html == format_llm_output(explanation_markdown, FALSE)
             IN  IF analogies.raised THEN analogies
                 ELSE IF explanation_html.raised THEN explanation_html
                 ELSE Returned_(PyDict([ explanation |-> explanation_html.value,
                                         analogies   |-> analogies.value ]))

\* ConnectionFinder.find on the text the model returned
ConnectionFinder_find(concept_a, concept_b, raw_text) ==
    LET outer    == json_loads(raw_text.str)
        response == IF ~outer.raised /\ IsA("dict", outer.value)
                    THEN PyGet(outer.value, "response", PyStr(<<>>)) ELSE PyNone
        raw_llm  == IF IsA("str", response) THEN PyStr(Strip(response.str))
                    ELSE PyStr(Strip(raw_text.str))
        parsed   == extract_json(raw_llm)
    IN  IF parsed = PyNone
        THEN Returned_(PyDict([ path        |-> PyList(<< PyStr(concept_a), PyStr(<<"bridge concept">>),
                                                         PyStr(concept_b) >>),
                                disciplines |-> PyList(<<>>),
                                strength    |-> PyInt(50) ]))
        ELSE Returned_(PyGet(parsed, "connections", parsed))

\* texts a model returns: none, prose, JSON that is no object, an object
\* in prose or in a fence, an unclosed object, objects
ModelTexts ==
    { <<>>,
      <<"Plain", " ", "words">>,
      <<"bias:", " ", "true">>,
      <<"[", "1", ",", " ", "true", "]">>,
      <<"\"fine\"">>,
      <<"null">>,
      <<"Sure", ":", " ", "{", "\"has_bias\"", ":", " ", "true", "}", " ", "Plain">>,
      <<"<fence json>", "{", "\"level_alignment\"", ":", "false", "}", "<fence>">>,
      <<"{", "\"has_bias\"", ":", "true">>,
      <<"{", "Plain", "}">>,
      <<"{", "}">>,
      <<"{", "\"has_bias\"", ":", "true", ",", "\"reasons\"", ":", "[", "\"x\"", "]", "}">>,
      <<"{", "\"level_alignment\"", ":", "false", "}">>,
      <<"{", "\"explanation_markdown\"", ":", "\"Plain words\"", ",",
             "\"analogies\"", ":", "[", "\"x\"", "]", "}">>,
      <<"{", "\"explanation_markdown\"", ":", "1", "}">>,
      <<"{", "\"connections\"", ":", "{", "\"path\"", ":", "[", "\"x\"", "]", "}", "}">> }

ParsingStages == {"connection_finder", "explanation_builder", "bias_monitor", "content_reviewer"}

\* one stage is given one text of the model
ParseOutput(stage, text) ==
    /\ q.pc = "idle"
    /\ ops > 0
    /\ ops' = ops - 1
    /\ log' = Append(log,
                [ outcome |-> "parse",
                  stage   |-> stage,
                  text    |-> text,
                  result  |-> CASE stage = "connection_finder" ->
                                       ConnectionFinder_find(<<"G", "r">>, <<"O", "r">>, PyStr(text))
                                [] stage = "explanation_builder" -> ExplanationBuilder_build(PyStr(text))
                                [] stage = "bias_monitor" -> BiasMonitor_review(PyStr(text))
                                [] stage = "content_reviewer" -> ContentReviewer_evaluate(PyStr(text)) ])
    /\ UNCHANGED <<cache, metrics, requests, now, history, q, budget, env, heap, procs, db>>

----------------------------------------------------------------------------
(* The calls the orchestrator makes of its own collaborators: how each     *)
(* method is declared, how the orchestrator calls it, and what the call    *)
(* and the await of its value come to.                                      *)

\* a method as declared: the parameters after self in order, those with a
\* default, and whether it is declared async def
Declared(params, defaults, is_async) ==
    [params |-> params, defaults |-> defaults, is_async |-> is_async]

\* the declarations of the four methods the miss path calls
Signature(stage) ==
    CASE stage = "connection_finder" ->
             Declared(<<"concept_a", "concept_b", "level", "ctx">>, {}, FALSE)
      [] stage = "explanation_builder" ->
             Declared(<<"connection", "level", "profile", "guidance", "concept_a", "concept_b">>,
                      {"profile", "guidance", "concept_a", "concept_b"}, TRUE)
      [] stage = "bias_monitor" -> Declared(<<"payload">>, {}, TRUE)
      [] stage = "content_reviewer" -> Declared(<<"bundle", "level">>, {}, TRUE)

\* the arguments of the orchestrator's call of each method: how many are
\* positional, and the names of those passed by keyword
CallSite(stage) ==
    CASE stage = "connection_finder" -> [positional |-> 4, keywords |-> {}]
      [] stage = "explanation_builder" ->
             [positional |-> 2, keywords |-> {"profile", "guidance", "concept_a", "concept_b"}]
      [] stage = "bias_monitor" -> [positional |-> 1, keywords |-> {}]
      [] stage = "content_reviewer" ->
             [positional |-> 1, keywords |-> {"level", "profile", "concept_a", "concept_b"}]

\* the arguments of a call bind to the parameters: no positional argument
\* too many, every keyword a parameter not yet bound, no parameter without
\* a value
Binds(sig, site) ==
    /\ site.positional <= Len(sig.params)
    /\ LET names == { sig.params[i] : i \in DOMAIN sig.params }
           given == { sig.params[i] : i \in 1..site.positional }
       IN  /\ site.keywords \subseteq (names \ given)
           /\ names \subseteq (given \cup site.keywords \cup sig.defaults)

\* the call expression: TypeError when the arguments do not bind; a
\* coroutine holding the body when the method is async def; else the body run
CallOf(sig, site, body) ==
    IF ~Binds(sig, site) THEN Raised("TypeError")
    ELSE IF sig.is_async THEN Returned_([coroutine |-> body])
    ELSE body

\* await of what a call expression gave: a coroutine runs, anything else is
\* TypeError
Await(called) ==
    IF called.raised THEN called
    ELSE IF IsA("coroutine", called.value) THEN called.value.coroutine
    ELSE Raised("TypeError")

\* the body of a method given the text the model returns
BodyOf(stage, text) ==
    CASE stage = "connection_finder" ->
             ConnectionFinder_find(<<"G", "r">>, <<"O", "r">>, PyStr(text))
      [] stage = "explanation_builder" -> ExplanationBuilder_build(PyStr(text))
      [] stage = "bias_monitor" -> BiasMonitor_review(PyStr(text))
      [] stage = "content_reviewer" -> ContentReviewer_evaluate(PyStr(text))

\* the orchestrator calls one collaborator and awaits what the call gave
CallStage(stage, text) ==
    /\ q.pc = "idle"
    /\ ops > 0
    /\ ops' = ops - 1
    /\ log' = Append(log,
                [ outcome |-> "call",
                  stage   |-> stage,
                  text    |-> text,
                  result  |-> Await(CallOf(Signature(stage), CallSite(stage), BodyOf(stage, text))) ])
    /\ UNCHANGED <<cache, metrics, requests, now, history, q, budget, env, heap, procs, db>>

----------------------------------------------------------------------------
(* ConnectionPool.  A connection is the number under which it was opened;  *)
(* _pool is the idle list, last the call made last with the pool as it was *)
(* before the call.                                                        *)

\* ConnectionPool.__init__
NewPool(pool_size) ==
    [ opened    |-> TRUE,
      pool_size |-> pool_size,
      _pool     |-> [i \in 1..pool_size |-> i],
      _in_use   |-> {},
      closed    |-> {},
      made      |-> pool_size,
      last      |-> [op |-> "init"] ]

Before(op, conn) ==
    [ op |-> op, conn |-> conn, _pool |-> db._pool, _in_use |-> db._in_use,
      closed |-> db.closed, made |-> db.made ]

\* ConnectionPool.acquire; the connections ever opened are capped
PoolAcquire ==
    /\ db.opened
    /\ IF db._pool = <<>>
       THEN /\ db.made < MaxConns
            /\ LET conn == db.made + 1
               IN  db' = [db EXCEPT !.made = conn,
                                    !._in_use = @ \cup {conn},
                                    !.last = Before("acquire", conn)]
       ELSE LET conn == db._pool[Len(db._pool)]
            IN  db' = [db EXCEPT !._pool = SubSeq(@, 1, Len(@) - 1),
                                 !._in_use = @ \cup {conn},
                                 !.last = Before("acquire", conn)]
    /\ UNCHANGED <<cache, metrics, requests, now, history, q, log, budget, ops, env, heap, procs>>

\* variant: release without the test "if conn in self._in_use"
PoolRelease_Unchecked(conn) ==
    /\ db.opened
    /\ db' = IF Len(db._pool) < db.pool_size
             THEN [db EXCEPT !._in_use = @ \ {conn},
                             !._pool = Append(@, conn),
                             !.last = Before("release", conn)]
             ELSE [db EXCEPT !._in_use = @ \ {conn},
                             !.closed = @ \cup {conn},
                             !.last = Before("release", conn)]
    /\ UNCHANGED <<cache, metrics, requests, now, history, q, log, budget, ops, env, heap, procs>>

\* ConnectionPool.release
PoolRelease(conn) ==
    /\ db.opened
    /\ db' = IF conn \in db._in_use
             THEN IF Len(db._pool) < db.pool_size
                  THEN [db EXCEPT !._in_use = @ \ {conn},
                                  !._pool = Append(@, conn),
                                  !.last = Before("release", conn)]
                  ELSE [db EXCEPT !._in_use = @ \ {conn},
                                  !.closed = @ \cup {conn},
                                  !.last = Before("release", conn)]
             ELSE [db EXCEPT !.last = Before("release", conn)]
    /\ UNCHANGED <<cache, metrics, requests, now, history, q, log, budget, ops, env, heap, procs>>

----------------------------------------------------------------------------
(* MemoryService._get_connection, the scope every operation of the service *)
(* runs its statements in.  The operations run one after another.  held is *)
(* the connection of the scope that is open, 0 when none is; commits and   *)
(* rollbacks count the calls of conn.commit() that returned and of         *)
(* conn.rollback(); last is the scope left last.                           *)

\* the pool of a service and no scope entered yet
NewScopes(pool_size) ==
    NewPool(pool_size) @@ [held |-> 0, commits |-> 0, rollbacks |-> 0]

\* pool.acquire(): the connection handed out and the pool afterwards
acquire(pool) ==
    IF pool._pool = <<>>
    THEN LET conn == pool.made + 1
         IN  [ conn |-> conn,
               pool |-> [pool EXCEPT !.made = conn, !._in_use = @ \cup {conn}] ]
    ELSE LET conn == pool._pool[Len(pool._pool)]
         IN  [ conn |-> conn,
               pool |-> [pool EXCEPT !._pool = SubSeq(@, 1, Len(@) - 1),
                                     !._in_use = @ \cup {conn}] ]

\* pool.release(conn): the pool afterwards
release(pool, conn) ==
    IF conn \in pool._in_use
    THEN IF Len(pool._pool) < pool.pool_size
         THEN [pool EXCEPT !._in_use = @ \ {conn}, !._pool = Append(@, conn)]
         ELSE [pool EXCEPT !._in_use = @ \ {conn}, !.closed = @ \cup {conn}]
    ELSE pool

\* what the body of a with block and the commit after it may do
BodyOutcomes == {"returns", "raises", "commit raises"}

\* what leaving the scope does to the connection and to the caller, the
\* release apart
Left(outcome) ==
    [ op          |-> "leave",
      conn        |-> db.held,
      outcome     |-> outcome,
      committed   |-> outcome = "returns",
      rolled_back |-> outcome # "returns",
      raised      |-> outcome # "returns" ]

\* _get_connection up to its yield
EnterScope ==
    /\ db.opened
    /\ db.held = 0
    /\ db.commits + db.rollbacks < MaxOps
    /\ LET got == acquire(db)
       IN  db' = [got.pool EXCEPT !.held = got.conn, !.last = [op |-> "enter", conn |-> got.conn]]
    /\ UNCHANGED <<cache, metrics, requests, now, history, q, log, budget, ops, env, heap, procs>>

\* variant: no finally clause, the release follows the commit
LeaveScope_NoFinally(outcome) ==
    /\ db.opened
    /\ db.held # 0
    /\ LET left == Left(outcome)
           pool == IF left.raised THEN db ELSE release(db, db.held)
       IN  db' = [pool EXCEPT !.held = 0,
                              !.commits = IF left.committed THEN @ + 1 ELSE @,
                              !.rollbacks = IF left.rolled_back THEN @ + 1 ELSE @,
                              !.last = left]
    /\ UNCHANGED <<cache, metrics, requests, now, history, q, log, budget, ops, env, heap, procs>>

\* _get_connection from its yield on: the body returned or raised, the
\* commit or the rollback, and the release of the finally clause
LeaveScope(outcome) ==
    /\ db.opened
    /\ db.held # 0
    /\ LET left == Left(outcome)
       IN  db' = [release(db, db.held) EXCEPT
                     !.held = 0,
                     !.commits = IF left.committed THEN @ + 1 ELSE @,
                     !.rollbacks = IF left.rolled_back THEN @ + 1 ELSE @,
                     !.last = left]
    /\ UNCHANGED <<cache, metrics, requests, now, history, q, log, budget, ops, env, heap, procs>>

----------------------------------------------------------------------------
(* MemoryService: the conversations and feedback tables.  A time is a      *)
(* number of half seconds since the first day; a timestamp column holds    *)
(* the text datetime.isoformat() makes of it, and SQLite compares the      *)
(* texts byte by byte.  A row also carries the time it was written at, at. *)

SecondsPerDay == 2
TicksPerDay == 2 * SecondsPerDay

DecimalDigit == [n \in 0..9 |-> IF n = 0 THEN "0" ELSE Digit[n]]

\* bytes of the characters of a timestamp
Ord == [c \in {"-", ".", "0", "1", "2", "3", "4", "5", "6", "7", "8", "9", "T"} |->
          CASE c = "-" -> 45 [] c = "." -> 46 [] c = "T" -> 84
            [] OTHER -> 48 + (CHOOSE d \in 0..9 : DecimalDigit[d] = c)]

\* datetime.isoformat(): DDTS, or DDTS.5 when the fraction is not zero
isoformat(t) ==
    LET day      == t \div TicksPerDay
        second   == (t % TicksPerDay) \div 2
        fraction == t % 2
    IN  <<DecimalDigit[day \div 10], DecimalDigit[day % 10], "T", DecimalDigit[second]>>
        \o (IF fraction = 0 THEN <<>> ELSE <<".", "5">>)

\* a < b between TEXT values under the BINARY collation
RECURSIVE TextLess(_, _)
TextLess(a, b) ==
    IF b = <<>> THEN FALSE
    ELSE IF a = <<>> THEN TRUE
    ELSE IF Head(a) # Head(b) THEN Ord[Head(a)] < Ord[Head(b)]
    ELSE TextLess(Tail(a), Tail(b))

\* variant: WHERE timestamp <= ?
Matches_OrEqual(timestamp, cutoff_date) ==
    TextLess(timestamp, cutoff_date) \/ timestamp = cutoff_date

\* WHERE timestamp < ?
Matches(timestamp, cutoff_date) == TextLess(timestamp, cutoff_date)

\* MemoryService.__init__: the pool and the empty tables of the schema
NewService(pool_size) ==
    NewPool(pool_size) @@
    [ utcnow |-> 0, conversations |-> <<>>, feedback |-> <<>>, rowid |-> [conversations |-> 0, feedback |-> 0] ]

\* rows ever inserted, capped by MaxRows
RowsWritten == db.rowid.conversations + db.rowid.feedback

Inserted(table, at) ==
    [ db EXCEPT ![table] = Append(@, [id |-> db.rowid[table] + 1, timestamp |-> isoformat(at), at |-> at]),
                !.rowid[table] = @ + 1,
                !.last = [op |-> "insert", table |-> table] ]

\* save_interaction: a row stamped datetime.utcnow().isoformat()
save_interaction ==
    /\ db.opened
    /\ RowsWritten < MaxRows
    /\ db' = Inserted("conversations", db.utcnow)
    /\ UNCHANGED <<cache, metrics, requests, now, history, q, log, budget, ops, env, heap, procs>>

\* save_feedback: a row stamped datetime.utcnow().isoformat()
save_feedback ==
    /\ db.opened
    /\ RowsWritten < MaxRows
    /\ db' = Inserted("feedback", db.utcnow)
    /\ UNCHANGED <<cache, metrics, requests, now, history, q, log, budget, ops, env, heap, procs>>

\* a conversation inserted with a timestamp of the past, as
\* test_cleanup_old_sessions does
InsertOld(at) ==
    /\ db.opened
    /\ RowsWritten < MaxRows
    /\ at < db.utcnow
    /\ db' = Inserted("conversations", at)
    /\ UNCHANGED <<cache, metrics, requests, now, history, q, log, budget, ops, env, heap, procs>>

\* cleanup_old_sessions(days_old): both DELETEs in one transaction on a
\* connection taken from the pool and put back; returns the two rowcounts
cleanup_old_sessions(days_old) ==
    /\ db.opened
    /\ days_old * TicksPerDay <= db.utcnow
    /\ LET cutoff_date  == isoformat(db.utcnow - days_old * TicksPerDay)
           Stays(row)   == ~Matches(row.timestamp, cutoff_date)
           conversations_deleted ==
               Len(db.conversations) - Len(SelectSeq(db.conversations, Stays))
           feedback_deleted ==
               Len(db.feedback) - Len(SelectSeq(db.feedback, Stays))
       IN  db' = [ db EXCEPT !.conversations = SelectSeq(@, Stays),
                             !.feedback = SelectSeq(@, Stays),
                             !.last = [ op |-> "cleanup",
                                        cutoff |-> db.utcnow - days_old * TicksPerDay,
                                        conversations |-> db.conversations,
                                        feedback |-> db.feedback,
                                        returned |-> conversations_deleted + feedback_deleted ] ]
    /\ UNCHANGED <<cache, metrics, requests, now, history, q, log, budget, ops, env, heap, procs>>

\* the wall clock moves on
ClockTick ==
    /\ db.opened
    /\ db.utcnow < MaxClock
    /\ db' = [db EXCEPT !.utcnow = @ + 1]
    /\ UNCHANGED <<cache, metrics, requests, now, history, q, log, budget, ops, env, heap, procs>>

----------------------------------------------------------------------------
(* prepare_context called on its own, as test_prepare_context_with_overrides *)
(* does: any stored profile row, any overrides.                              *)

\* one entry of an overrides dict, or none
Entry(k, choice, v) ==
    CASE choice = "absent" -> EmptyDict
      [] choice = "null"   -> [x \in {k} |-> PyNone]
      [] choice = "given"  -> [x \in {k} |-> Given(v)]

Overrides ==
    { Entry("education_level", el, "PhD")
        @@ Entry("preferred_examples", pe, "sports")
        @@ Entry("concept_a_knowledge", ak, 5)
        @@ Entry("knowledge_level", kl, <<"A">>) :
      el \in {"absent", "null", "given"}, pe \in {"absent", "null", "given"},
      ak \in {"absent", "given"}, kl \in {"absent", "given"} }

PrepareContext(level, session_id, row, profile_overrides) ==
    /\ q.pc = "idle"
    /\ ops > 0
    /\ ops' = ops - 1
    /\ log' = << [ outcome    |-> "context",
                   level      |-> level,
                   session_id |-> session_id,
                   row        |-> row,
                   overrides  |-> profile_overrides,
                   ctx        |-> prepare_context(history, <<"A">>, <<"B">>, level,
                                                  session_id, row, profile_overrides) ] >>
    /\ UNCHANGED <<cache, metrics, requests, now, history, q, budget, env, heap, procs, db>>

----------------------------------------------------------------------------
(* The profile store: the table user_profiles, one row or none per         *)
(* session.  The orchestrator reaches it in prepare_context only, through  *)
(* get_profile; upsert_profile is called by the web layer.                 *)

StoredSessions == {"s1", "s2"}

\* the table of a new database
NoProfiles == [user_profiles |-> [s \in StoredSessions |-> NoRow]]

\* the rows the web layer stores: one with every field given, one with the
\* text fields left empty
StoredRows ==
    { r \in ProfileRows \ {NoRow} :
        \/ r.knowledge_level = <<"b">> /\ r.education_level = "undergrad" /\ r.concept_a_knowledge = 3
        \/ r.knowledge_level = <<>> /\ r.education_level = "None" /\ r.concept_a_knowledge = 0 }

\* the overrides of the queries: none, or education_level and
\* concept_a_knowledge absent, null or given
QueryOverrides ==
    { o \in Overrides : DOMAIN o \subseteq {"education_level", "concept_a_knowledge"} }

\* ProfileService.upsert_profile
upsert_profile(session_id, row) ==
    /\ q.pc = "idle"
    /\ ops > 0
    /\ ops' = ops - 1
    /\ db' = [db EXCEPT !.user_profiles[session_id] = row]
    /\ UNCHANGED <<cache, metrics, requests, now, history, q, log, budget, env, heap, procs>>

\* the row a profile dict would be stored as
RowOf(profile) ==
    [ present             |-> TRUE,
      knowledge_level     |-> profile.knowledge_level,
      preferred_examples  |-> Get(profile, "preferred_examples", "None"),
      education_level     |-> profile.education_level,
      education_system    |-> profile.education_system,
      concept_a_knowledge |-> profile.concept_a_knowledge,
      concept_b_knowledge |-> profile.concept_b_knowledge ]

\* what a query's prepare_context leaves in the log: the arguments, the
\* number of the operation, and the context returned
Prepared(level, session_id, profile_overrides) ==
    [ outcome    |-> "context",
      nth        |-> MaxOps - ops + 1,
      level      |-> level,
      session_id |-> session_id,
      overrides  |-> profile_overrides,
      ctx        |-> prepare_context(history, <<"A">>, <<"B">>, level, session_id,
                                     IF session_id = "None" THEN NoRow
                                     ELSE db.user_profiles[session_id],
                                     profile_overrides) ]

\* variant: the profile of the context is stored for the session
PrepareStored_WriteBack(level, session_id, profile_overrides) ==
    /\ q.pc = "idle"
    /\ ops > 0
    /\ ops' = ops - 1
    /\ log' = << Prepared(level, session_id, profile_overrides) >>
    /\ db' = IF session_id = "None" THEN db
             ELSE [db EXCEPT !.user_profiles[session_id] =
                       RowOf(Prepared(level, session_id, profile_overrides).ctx.profile)]
    /\ UNCHANGED <<cache, metrics, requests, now, history, q, budget, env, heap, procs>>

\* prepare_context of one query, reading the store
PrepareStored(level, session_id, profile_overrides) ==
    /\ q.pc = "idle"
    /\ ops > 0
    /\ ops' = ops - 1
    /\ log' = << Prepared(level, session_id, profile_overrides) >>
    /\ UNCHANGED <<cache, metrics, requests, now, history, q, budget, env, heap, procs, db>>

----------------------------------------------------------------------------
(* Calls in flight together on one Orchestrator.  With env.confined they   *)
(* are coroutines of one event loop running process_query_async, which     *)
(* give way only at an await; otherwise they are threads, each running     *)
(* process_query with an event loop of its own, and a thread may be        *)
(* preempted between the read and the write of "self.cache_hits += 1".     *)
(* The stages between the uses of the shared objects touch nothing shared  *)
(* and are left out.                                                       *)

NotStarted == [pc |-> "ready", cache_key |-> <<>>, hit |-> FALSE, loaded |-> 0]

\* the Result of a call, of which only the identity matters here
ResultFor(cache_key) == [connection |-> cache_key]

CounterOf(t) == IF procs[t].hit THEN "cache_hits" ELSE "cache_misses"

\* what follows the metric of the lookup: the hit's save, or the pipeline
AfterCount(t) == IF procs[t].hit THEN "hit_save" ELSE "connection"

\* lines 268-280 up to the metric; a coroutine also records the metric
\* before it gives way
Lookup(t, key) ==
    /\ procs[t].pc = "ready"
    /\ LET got == LRUGet(cache, key)
           hit == Truthy(got.value)
       IN  /\ cache' = got.store
           /\ IF env.confined
              THEN /\ metrics' = IF hit THEN record_cache_hit(metrics)
                                        ELSE record_cache_miss(metrics)
                   /\ procs' = [procs EXCEPT ![t].cache_key = key, ![t].hit = hit,
                                  ![t].pc = IF hit THEN "hit_save" ELSE "connection"]
              ELSE /\ procs' = [procs EXCEPT ![t].cache_key = key, ![t].hit = hit,
                                             ![t].pc = "load"]
                   /\ UNCHANGED metrics
    /\ UNCHANGED <<requests, now, history, q, log, budget, ops, env, heap, db>>

\* the read of self.cache_hits += 1 or self.cache_misses += 1
LoadCounter(t) ==
    /\ procs[t].pc = "load"
    /\ procs' = [procs EXCEPT ![t].loaded = metrics[CounterOf(t)], ![t].pc = "store"]
    /\ UNCHANGED <<cache, metrics, requests, now, history, q, log, budget, ops, env, heap, db>>

\* the write of self.cache_hits += 1 or self.cache_misses += 1
StoreCounter(t) ==
    /\ procs[t].pc = "store"
    /\ metrics' = [metrics EXCEPT ![CounterOf(t)] = procs[t].loaded + 1]
    /\ procs' = [procs EXCEPT ![t].pc = AfterCount(t)]
    /\ UNCHANGED <<cache, requests, now, history, q, log, budget, ops, env, heap, db>>

\* lines 276-277: the hit is saved and returned
SaveHit(t) ==
    /\ procs[t].pc = "hit_save"
    /\ history' = Append(history, [cache_key |-> procs[t].cache_key, by |-> t])
    /\ procs' = [procs EXCEPT ![t].pc = "done"]
    /\ UNCHANGED <<cache, metrics, requests, now, q, log, budget, ops, env, heap, db>>

\* rate_limiter.acquire() of line 300 and of line 229, neither of which
\* finds the window full
TakeSlot(t) ==
    /\ procs[t].pc \in {"connection", "narrative"}
    /\ ~MustSleep(requests, now)
    /\ requests' = Admit(requests, now)
    /\ procs' = [procs EXCEPT ![t].pc = IF @ = "connection" THEN "narrative" ELSE "save"]
    /\ UNCHANGED <<cache, metrics, now, history, q, log, budget, ops, env, heap, db>>

\* the Result call t built: what the model writes differs from call to
\* call, so a Result is told by the call that built it
BuiltBy(t) == ResultFor(procs[t].cache_key) @@ [built_by |-> t]

\* variant: a key the cache holds keeps the Result it has
Commit_KeepFirst(t) ==
    /\ procs[t].pc = "save"
    /\ history' = Append(history, [cache_key |-> procs[t].cache_key, by |-> t])
    /\ cache' = IF procs[t].cache_key \in Keys(cache) THEN cache
              ELSE LRUSet(cache, procs[t].cache_key, BuiltBy(t), env.cache_size)
    /\ procs' = [procs EXCEPT ![t].pc = "done"]
    /\ UNCHANGED <<metrics, requests, now, q, log, budget, ops, env, heap, db>>

\* lines 441-443
Commit(t) ==
    /\ procs[t].pc = "save"
    /\ history' = Append(history, [cache_key |-> procs[t].cache_key, by |-> t])
    /\ cache' = LRUSet(cache, procs[t].cache_key, BuiltBy(t), env.cache_size)
    /\ procs' = [procs EXCEPT ![t].pc = "done"]
    /\ UNCHANGED <<metrics, requests, now, q, log, budget, ops, env, heap, db>>

----------------------------------------------------------------------------
(* The limiter used on its own by the tasks of one event loop.  time.time() *)
(* is read in ticks, TicksPerSecond to the second; a task that sleeps wakes *)
(* at the end of its sleep or later, never earlier.                         *)

\* a task that has not called acquire yet
NotCalled == [ pc |-> "ready", wake |-> 0, sleeps |-> 0, before |-> 0,
               floor |-> 0, admitted |-> 0 ]

\* RateLimiter(max_requests=3, time_window=1) of test_rate_limiter
LimiterUnderTest == [max_requests |-> 3, time_window |-> 1 * TicksPerSecond]

Admitted == {p \in DOMAIN procs : procs[p].pc = "done"}

\* one run of the body of acquire by task p: the prune, then the sleep that
\* ends in the recursive call, or the append
Enter(p, tasks) ==
    LET kept == Prune(requests, now)
    IN  IF MustSleep(requests, now)
        THEN /\ requests' = kept
             /\ procs' = [tasks EXCEPT ![p].pc = "sleeping",
                                       ![p].wake = now + SleepTime(kept, now),
                                       ![p].sleeps = @ + 1]
        ELSE /\ requests' = Admit(requests, now)
             /\ procs' = [tasks EXCEPT ![p].pc = "done",
                                       ![p].admitted = now]

\* task p calls acquire; the tasks call in the order of their numbers.
\* before: how many acquires were admitted by then; floor: the end of the
\* window of the oldest timestamp if p finds max_requests timestamps
Acquire(p) ==
    /\ procs[p].pc = "ready"
    /\ \A o \in DOMAIN procs : o < p => procs[o].pc # "ready"
    /\ LET kept == Prune(requests, now)
           met  == [procs EXCEPT
                      ![p].before = Cardinality(Admitted),
                      ![p].floor = IF Len(kept) >= env.max_requests
                                   THEN Head(kept) + env.time_window ELSE 0]
       IN  Enter(p, met)
    /\ UNCHANGED <<cache, metrics, now, history, q, log, budget, ops, env, heap, db>>

\* variant: the task appends when its sleep ends, without a second look
Wake_NoRecheck(p) ==
    /\ procs[p].pc = "sleeping"
    /\ now >= procs[p].wake
    /\ requests' = Admit(requests, now)
    /\ procs' = [procs EXCEPT ![p].pc = "done", ![p].admitted = now]
    /\ UNCHANGED <<cache, metrics, now, history, q, log, budget, ops, env, heap, db>>

\* the sleep of task p is over: return await self.acquire()
Wake(p) ==
    /\ procs[p].pc = "sleeping"
    /\ now >= procs[p].wake
    /\ Enter(p, procs)
    /\ UNCHANGED <<cache, metrics, now, history, q, log, budget, ops, env, heap, db>>

\* the clock advances: up to MaxTime, and as long as a task sleeps
Tick ==
    /\ \/ now < MaxTime
       \/ \E p \in DOMAIN procs : procs[p].pc = "sleeping" /\ procs[p].wake > now
    /\ now' = now + 1
    /\ UNCHANGED <<cache, metrics, requests, history, q, log, budget, ops, env, heap, procs, db>>

----------------------------------------------------------------------------
(* The cache used on its own: _LRUCache.get and _LRUCache.set *)

\* the entry the driver's log keeps of one operation on the cache
CacheOp(op, key, found, evicted) ==
    [ outcome |-> op, cache_key |-> key, hit |-> found, evicted |-> evicted ]

StoredValue(key) == [explanations |-> <<"stored for ">> \o key[1] \o key[2]]

CacheGet(key) ==
    /\ q.pc = "idle"
    /\ ops > 0
    /\ ops' = ops - 1
    /\ LET got == LRUGet(cache, key)
       IN  /\ cache' = got.store
           /\ log' = Append(log, CacheOp("get", key, got.value # PyNone, {}))
    /\ UNCHANGED <<metrics, requests, now, history, q, budget, env, heap, procs, db>>

CacheSet(key, value) ==
    /\ q.pc = "idle"
    /\ ops > 0
    /\ ops' = ops - 1
    /\ cache' = LRUSet(cache, key, value, env.cache_size)
    /\ log' = Append(log, CacheOp("set", key, key \in Keys(cache), Keys(cache) \ Keys(cache')))
    /\ UNCHANGED <<metrics, requests, now, history, q, budget, env, heap, procs, db>>

----------------------------------------------------------------------------
(* The cache and the Results as objects.  A cell is a dict or a list; the  *)
(* address of a cell is its index; a Result is a dict whose "progress"     *)
(* item is the address of its timeline list, the mutable part inside it.   *)
(* Here the store holds addresses, and a copy is a new cell.               *)

\* variant: copy.copy, a new dict around the same timeline
shallowcopy(cells, addr) ==
    [ cells |-> Append(cells, cells[addr]), addr |-> Len(cells) + 1 ]

\* copy.deepcopy of a Result: a new timeline and a new dict around it
deepcopy(cells, addr) ==
    LET timeline == cells[cells[addr].items.progress]
        copied   == Append(cells, timeline)
        result   == [cells[addr] EXCEPT !.items.progress = Len(copied)]
    IN  [ cells |-> Append(copied, result), addr |-> Len(copied) + 1 ]

\* the value of the Result at an address
ValueAt(cells, addr) ==
    [cells[addr].items EXCEPT !.progress = cells[@].items]

\* the cells a Result is made of
CellsOf(cells, addr) == {addr, cells[addr].items.progress}

\* lines 424-443 as the caller sees them: a Result is built, a deep copy of
\* it stored, and the Result itself returned
ReturnFresh(key) ==
    /\ q.pc = "idle"
    /\ ops > 0
    /\ ops' = ops - 1
    /\ LET timeline == [kind |-> "list", items |-> << [stage |-> "context"] >>]
           built    == Append(heap.cells, timeline)
           result   == [kind |-> "dict",
                        items |-> [ explanations |-> StoredValue(key).explanations,
                                    progress     |-> Len(built) ]]
           cells    == Append(built, result)
           copy     == deepcopy(cells, Len(cells))
       IN  /\ cache' = LRUSet(cache, key, copy.addr, env.cache_size)
           /\ heap' = [cells |-> copy.cells, held |-> heap.held \cup {Len(cells)}]
           /\ log' = Append(log, [ outcome   |-> "set",
                                   cache_key |-> key,
                                   value     |-> ValueAt(cells, Len(cells)) ])
    /\ UNCHANGED <<metrics, requests, now, history, q, budget, env, procs, db>>

\* lines 272-277 as the caller sees them: a deep copy of the stored Result
\* is returned
ReturnCached(key) ==
    /\ q.pc = "idle"
    /\ ops > 0
    /\ key \in Keys(cache)
    /\ ops' = ops - 1
    /\ LET got  == LRUGet(cache, key)
           copy == deepcopy(heap.cells, got.value)
       IN  /\ cache' = got.store
           /\ heap' = [cells |-> copy.cells, held |-> heap.held \cup {copy.addr}]
           /\ log' = Append(log, [ outcome   |-> "get",
                                   cache_key |-> key,
                                   value     |-> ValueAt(copy.cells, copy.addr) ])
    /\ UNCHANGED <<metrics, requests, now, history, q, budget, env, procs, db>>

\* a caller changes a Result it was given: it sets a key of the dict, or
\* appends to the timeline
Mutate(addr, how) ==
    /\ q.pc = "idle"
    /\ ops > 0
    /\ addr \in heap.held
    /\ ops' = ops - 1
    /\ LET inner == heap.cells[addr].items.progress
       IN  heap' = [heap EXCEPT !.cells =
                       IF how = "set key"
                       THEN [@ EXCEPT ![addr].items = [annotated |-> TRUE] @@ @]
                       ELSE [@ EXCEPT ![inner].items = Append(@, [stage |-> "added by caller"])]]
    /\ log' = Append(log, [outcome |-> "mutate", cache_key |-> <<>>, value |-> how])
    /\ UNCHANGED <<cache, metrics, requests, now, history, q, budget, env, db>>
    /\ UNCHANGED procs

----------------------------------------------------------------------------
(* The orchestrator as constructed, and its driver *)

\* every call
AnyCall == { <<a, b, l, s>> : a \in Concepts, b \in Concepts, l \in Levels, s \in Sessions }

\* every outcome of every collaborator, for a caller without a session and
\* one with a session
AnyOutcome ==
    [ calls  |-> { << <<"G", "r">>, <<"O", "r">>, <<"B">>, "None" >>,
                   << <<"g", "R">>, <<"G", "r">>, <<"A">>, "s1" >> },
      find   |-> {"raise", "path"},
      build  |-> {"raise", "none", "empty", "blank", "text"},
      bias   |-> {"raise", "biased", "clean"},
      review |-> {"raise", "aligned", "misaligned", "unkeyed"},
      save   |-> {"raise", "saved"} ]

\* a session's traffic: one pair asked again in another case by another
\* caller, and asked in the other order; a path-finder that answers, a
\* history store that may fail
Traffic ==
    [ calls  |-> { << <<"G", "r">>, <<"O", "r">>, <<"B">>, "None" >>,
                   << <<"g", "R">>, <<"O", "r">>, <<"b">>, "s1" >>,
                   << <<"O", "r">>, <<"G", "r">>, <<"B">>, "s1" >> },
      find   |-> {"path"},
      build  |-> {"text"},
      bias   |-> {"biased", "clean"},
      review |-> {"aligned"},
      save   |-> {"raise", "saved"} ]

\* every pair of concepts at every level, collaborators that do not fail
Catalogue ==
    [ calls  |-> { c \in AnyCall : c[4] = "None" },
      find   |-> {"path"},
      build  |-> {"text"},
      bias   |-> {"biased", "clean"},
      review |-> {"aligned"},
      save   |-> {"saved"} ]

\* two pairs, and collaborators any of which may fail
Faulty ==
    [ calls  |-> { << <<"G", "r">>, <<"O", "r">>, <<"B">>, "None" >>,
                   << <<"O", "r">>, <<"G", "r">>, <<"B">>, "s1" >> },
      find   |-> {"raise", "path"},
      build  |-> {"raise", "text"},
      bias   |-> {"raise", "biased", "clean"},
      review |-> {"raise", "aligned"},
      save   |-> {"raise", "saved"} ]

\* one call whose reviews may find fault or fail
Reviewed ==
    [ calls  |-> { << <<"G", "r">>, <<"O", "r">>, <<"B">>, "None" >> },
      find   |-> {"path"},
      build  |-> {"text"},
      bias   |-> {"raise", "biased", "clean"},
      review |-> {"raise", "aligned", "misaligned"},
      save   |-> {"saved"} ]

\* more keys than the cache holds, collaborators that do not fail and
\* reviews that find nothing
Shelf ==
    [ calls  |-> { << <<"G", "r">>, <<"O", "r">>, <<"B">>, "None" >>,
                   << <<"O", "r">>, <<"G", "r">>, <<"B">>, "None" >>,
                   << <<"G", "r">>, <<"G", "r">>, <<"A">>, "None" >> },
      find   |-> {"path"},
      build  |-> {"text"},
      bias   |-> {"clean"},
      review |-> {"aligned"},
      save   |-> {"saved"} ]

\* no object told from its value, no caller beside the one of q
NoObjects == [cells |-> <<>>, held |-> {}]

\* no database opened
NoDatabase == [opened |-> FALSE]

Fresh ==
    /\ cache = <<>>
    /\ metrics = MetricsInit
    /\ requests = <<>>
    /\ now = 0
    /\ history = <<>>
    /\ q = Idle
    /\ log = <<>>
    /\ heap = NoObjects
    /\ procs = <<>>
    /\ db = NoDatabase

Init ==
    /\ Fresh
    /\ budget = MaxQueries
    /\ ops = 0
    /\ \E size \in 1..CacheSize : env = Traffic @@ [cache_size |-> size] @@ Limiter

InitPipe ==
    /\ Fresh
    /\ budget = 1
    /\ ops = 0
    /\ env = AnyOutcome @@ [cache_size |-> CacheSize] @@ Limiter

InitKeys ==
    /\ Fresh
    /\ budget = 2
    /\ ops = 0
    /\ env = Catalogue @@ [cache_size |-> CacheSize] @@ Limiter

InitLRU ==
    /\ Fresh
    /\ budget = 1
    /\ ops = MaxOps
    /\ \E size \in 1..CacheSize : env = Shelf @@ [cache_size |-> size] @@ Limiter

InitFaulty ==
    /\ Fresh
    /\ budget = 2
    /\ ops = 0
    /\ env = Faulty @@ [cache_size |-> CacheSize] @@ Limiter

InitLimiter ==
    /\ cache = <<>>
    /\ metrics = MetricsInit
    /\ requests = <<>>
    /\ now = 0
    /\ history = <<>>
    /\ q = Idle
    /\ log = <<>>
    /\ heap = NoObjects
    /\ db = NoDatabase
    /\ budget = 0
    /\ ops = 0
    /\ procs = [p \in 1..NumCallers |-> NotCalled]
    /\ \E m \in 1..LimiterUnderTest.max_requests :
          env = [LimiterUnderTest EXCEPT !.max_requests = m]

InitTogether ==
    /\ cache = <<>>
    /\ metrics = MetricsInit
    /\ requests = <<>>
    /\ now = 0
    /\ history = <<>>
    /\ q = Idle
    /\ log = <<>>
    /\ heap = NoObjects
    /\ db = NoDatabase
    /\ budget = 0
    /\ ops = 0
    /\ procs = [t \in 1..NumThreads |-> NotStarted]
    /\ \E size \in 1..CacheSize, confined \in BOOLEAN :
          env = Shelf @@ [cache_size |-> size, confined |-> confined] @@ Limiter

InitContext ==
    /\ Fresh
    /\ budget = 0
    /\ ops = 1
    /\ env = Shelf @@ [cache_size |-> CacheSize] @@ Limiter

InitJoin ==
    /\ cache = <<>>
    /\ metrics = MetricsInit
    /\ requests = <<>>
    /\ now = 0
    /\ history = <<>>
    /\ q = Idle
    /\ log = <<>>
    /\ heap = NoObjects
    /\ db = NoDatabase
    /\ budget = 1
    /\ ops = 0
    /\ procs = NoTasks
    /\ env = Reviewed @@ [cache_size |-> CacheSize] @@ Limiter

\* everything but the database, unused
NoOrchestrator ==
    /\ cache = <<>>
    /\ metrics = MetricsInit
    /\ requests = <<>>
    /\ now = 0
    /\ history = <<>>
    /\ q = Idle
    /\ log = <<>>
    /\ heap = NoObjects
    /\ procs = <<>>
    /\ budget = 0
    /\ ops = 0
    /\ env = Limiter

InitPool ==
    /\ NoOrchestrator
    /\ \E pool_size \in 1..MaxPool : db = NewPool(pool_size)

\* one call of a pure function ahead
InitOnce ==
    /\ Fresh
    /\ budget = 0
    /\ ops = 1
    /\ env = Limiter

InitMetrics ==
    /\ Fresh
    /\ budget = 0
    /\ ops = MaxOps
    /\ env = Limiter

InitParse ==
    /\ Fresh
    /\ budget = 0
    /\ ops = MaxTexts
    /\ env = Limiter

InitProfiles ==
    /\ cache = <<>>
    /\ metrics = MetricsInit
    /\ requests = <<>>
    /\ now = 0
    /\ history = <<>>
    /\ q = Idle
    /\ log = <<>>
    /\ heap = NoObjects
    /\ procs = <<>>
    /\ budget = 0
    /\ ops = MaxOps
    /\ env = Limiter
    /\ db = NoProfiles

InitScopes ==
    /\ NoOrchestrator
    /\ \E pool_size \in 0..MaxPool : db = NewScopes(pool_size)

InitService ==
    /\ NoOrchestrator
    /\ db = NewService(1)

InitCopy ==
    /\ Fresh
    /\ budget = 0
    /\ ops = MaxOps
    /\ env = Shelf @@ [cache_size |-> CacheSize] @@ Limiter

\* the stages of a call that missed the cache, up to its first review and
\* from the end of the mitigation loop on
FirstPass ==
    \/ Context
    \/ /\ q.pc = "connection"
       /\ \E o \in Allowed(FindOutcomes(q.concept_a, q.concept_b), env.find) : Connection(o)
    \/ /\ q.pc = "narrative"
       /\ \E o \in Allowed(BuildOutcomes(q.calls.build + 1), env.build) : Narrative(o)
    \/ /\ q.pc = "review"
       /\ \E bo \in Allowed(BiasOutcomes(q.calls.bias + 1), env.bias),
             co \in Allowed(ReviewOutcomes(q.calls.review + 1), env.review) :
              Review(bo, co)
    \/ LoopHead
    \/ Assemble
    \/ \E o \in Allowed(SaveOutcomes, env.save) : Save(o)

\* a regeneration and its review
Regeneration ==
    \/ /\ q.pc = "retry_narrative"
       /\ \E o \in Allowed(BuildOutcomes(q.calls.build + 1), env.build) : RetryNarrative(o)
    \/ /\ q.pc = "retry_review"
       /\ \E bo \in Allowed(BiasOutcomes(q.calls.bias + 1), env.bias),
             co \in Allowed(ReviewOutcomes(q.calls.review + 1), env.review) :
              RetryReview(bo, co)

MissPath == FirstPass \/ Regeneration

Call == \E c \in env.calls : StartQuery(c[1], c[2], c[3], c[4])

\* calls served without a wait in the limiter
Serve ==
    \/ Call
    \/ \E o \in Allowed(SaveOutcomes, env.save) : HitSave(o)
    \/ MissPath

Next ==
    \/ Serve
    \/ Sleep

\* a single call on a fresh orchestrator never finds its key in the cache
NextPipe ==
    \/ Call
    \/ MissPath

\* the keys of the run's calls
RunKeys == { CacheKeyOf(c[1], c[2], c[3]) : c \in env.calls }

\* gets and sets on the cache around one call that needs no regeneration
NextLRU ==
    \/ \E key \in RunKeys : CacheGet(key)
    \/ \E key \in RunKeys : CacheSet(key, StoredValue(key))
    \/ Call
    \/ \E o \in Allowed(SaveOutcomes, env.save) : HitSave(o)
    \/ FirstPass

\* Results handed to callers that change them
NextLimiter ==
    \/ \E p \in DOMAIN procs : Acquire(p)
    \/ \E p \in DOMAIN procs : Wake(p)
    \/ Tick

NextTogether ==
    \/ \E t \in DOMAIN procs, key \in RunKeys : Lookup(t, key)
    \/ \E t \in DOMAIN procs : LoadCounter(t)
    \/ \E t \in DOMAIN procs : StoreCounter(t)
    \/ \E t \in DOMAIN procs : SaveHit(t)
    \/ \E t \in DOMAIN procs : TakeSlot(t)
    \/ \E t \in DOMAIN procs : Commit(t)

NextContext ==
    \E level \in Levels, session_id \in Sessions, row \in ProfileRows,
       profile_overrides \in Overrides :
        PrepareContext(level, session_id, row, profile_overrides)

NextJoin ==
    \/ Call
    \/ Context
    \/ /\ q.pc = "connection"
       /\ \E o \in Allowed(FindOutcomes(q.concept_a, q.concept_b), env.find) : Connection(o)
    \/ /\ q.pc = "narrative"
       /\ \E o \in Allowed(BuildOutcomes(q.calls.build + 1), env.build) : Narrative(o)
    \/ /\ q.pc = "retry_narrative"
       /\ \E o \in Allowed(BuildOutcomes(q.calls.build + 1), env.build) : RetryNarrative(o)
    \/ ReviewStart
    \/ /\ Started
       /\ \E o \in Allowed(BiasOutcomes(q.calls.bias + 1), env.bias) : BiasReturns(o)
    \/ /\ Started
       /\ \E o \in Allowed(ReviewOutcomes(q.calls.review + 1), env.review) : ContentReturns(o)
    \/ GatherEnds
    \/ LoopHead
    \/ Assemble
    \/ \E o \in Allowed(SaveOutcomes, env.save) : Save(o)

NextPool ==
    \/ PoolAcquire
    \/ \E conn \in 1..db.made : PoolRelease(conn)

NextAudit ==
    \E connection \in AuditedConnections, explanations \in AuditedExplanations,
       analogies \in AuditedAnalogies :
        Audit(connection, explanations, analogies)

NextMetrics ==
    \/ RecordHit
    \/ RecordMiss
    \/ \E count \in 1..MAX_RETRIES, succeeded \in BOOLEAN : RecordRetry(count, succeeded)
    \/ \E stage \in {"connection", "narrative"}, duration \in Durations : RecordStage(stage, duration)
    \/ \E agent_name \in Agents : RecordFailure(agent_name)
    \/ GetSummary

NextGuidance ==
    \E base_guidance \in Guidances, content_review \in ContentReviews,
       bias_review \in BiasReviews, strategy \in {EMPHASIS, SIMPLIFICATION, RESTRUCTURE} :
        Compose(base_guidance, content_review, bias_review, strategy)

NextParse ==
    \E stage \in ParsingStages, text \in ModelTexts : ParseOutput(stage, text)

NextWired ==
    \E stage \in ParsingStages, text \in ModelTexts : CallStage(stage, text)

NextProfiles ==
    \/ \E session_id \in StoredSessions, row \in StoredRows :
          upsert_profile(session_id, row)
    \/ \E level \in Levels, session_id \in StoredSessions \cup {"None"},
          profile_overrides \in QueryOverrides :
          PrepareStored(level, session_id, profile_overrides)

NextScopes ==
    \/ EnterScope
    \/ \E outcome \in BodyOutcomes : LeaveScope(outcome)

NextService ==
    \/ ClockTick
    \/ save_interaction
    \/ save_feedback
    \/ \E at \in 0..MaxClock : InsertOld(at)
    \/ \E days_old \in 0..MaxDaysOld : cleanup_old_sessions(days_old)

NextCopy ==
    \/ \E key \in RunKeys : ReturnFresh(key)
    \/ \E key \in RunKeys : ReturnCached(key)
    \/ \E addr \in heap.held, how \in {"set key", "append"} : Mutate(addr, how)

\* calls served one after the other by one orchestrator
Spec == Init /\ [][Next]_vars

\* one call, every outcome of every collaborator
SpecPipe == InitPipe /\ [][NextPipe]_vars

\* two calls, every pair of concepts and every level; two calls acquire the
\* limiter at most eight times, fewer than max_requests
SpecKeys == InitKeys /\ [][Serve]_vars

\* the cache driven directly, and one call
SpecLRU == InitLRU /\ [][NextLRU]_vars

\* two calls, either of which a collaborator may fail
SpecFaulty == InitFaulty /\ [][Serve]_vars

\* tasks of one event loop acquiring one limiter
SpecLimiter == InitLimiter /\ [][NextLimiter]_vars

\* the event loop runs every task whose sleep is over, and time passes
SpecLimiterFair ==
    /\ SpecLimiter
    /\ WF_vars(Tick)
    /\ \A p \in 1..NumCallers : WF_vars(Wake(p))

\* calls in flight together, as coroutines or as threads
SpecTogether == InitTogether /\ [][NextTogether]_vars

\* one context prepared, for any inputs
SpecContext == InitContext /\ [][NextContext]_vars

\* one call, its reviews as two coroutines under gather
SpecJoin == InitJoin /\ [][NextJoin]_vars

\* a pool acquired from and released to in any order
SpecPool == InitPool /\ [][NextPool]_vars

\* the fairness auditor applied to one input
SpecAudit == InitOnce /\ [][NextAudit]_vars

\* a MetricsCollector on its own
SpecMetrics == InitMetrics /\ [][NextMetrics]_vars

\* the guidance composed from one set of arguments
SpecGuidance == InitOnce /\ [][NextGuidance]_vars

\* the parsing stages, each given texts of the model
SpecParse == InitParse /\ [][NextParse]_vars

\* the collaborators as the orchestrator calls them
SpecWired == InitParse /\ [][NextWired]_vars

\* the profile store under queries and under the web layer's updates
SpecProfiles == InitProfiles /\ [][NextProfiles]_vars

\* the operations of the memory service, each in its scope
SpecScopes == InitScopes /\ [][NextScopes]_vars

\* the tables of the memory service and their cleanup
SpecService == InitService /\ [][NextService]_vars

\* the cache and the Results as objects
SpecCopy == InitCopy /\ [][NextCopy]_vars

----------------------------------------------------------------------------
(* What the claims speak of *)

\* the calls that missed the cache and built a Result: those that returned
\* it, and the one in flight that has assembled it
Produced ==
    { log[i] : i \in { j \in DOMAIN log : log[j].outcome = "result" /\ ~log[j].hit } }
        \cup (IF q.pc = "save" THEN {Finished(q, "result", q.result, "nothing", {})} ELSE {})

Returned == { log[i] : i \in { j \in DOMAIN log : log[j].outcome = "result" } }

\* a review pass reports bias or misalignment
ReportsProblem(pass) ==
    \/ ("has_bias" \in DOMAIN pass.bias /\ pass.bias.has_bias)
    \/ ("level_alignment" \in DOMAIN pass.content /\ ~pass.content.level_alignment)

AllReport(passes) == \A i \in DOMAIN passes : ReportsProblem(passes[i])

Aborts(progress) == { i \in DOMAIN progress : progress[i].stage = "mitigation_aborted" }

Collaborators == {"connection_finder", "bias_monitor", "content_reviewer", "save_interaction"}

HasContent(text) == \E i \in DOMAIN text : text[i] \notin {" ", "\t", "\n"}

NoContentBuilds == {"raise", "none", "empty", "blank"}

----------------------------------------------------------------------------
\* C1: whatever the reviews say, a call regenerates at most MAX_RETRIES
\* times: retry_count never exceeds MAX_RETRIES; once a review pass is over
\* the explainer, the bias monitor and the content reviewer have each been
\* called 1 + retry_count times; a call whose budget is exhausted goes on to
\* assemble and return its Result, and the only exception that can still
\* leave it is the history store's.
C1_BoundedRegeneration ==
    /\ "retry_count" \in DOMAIN q => q.retry_count \in 0..MAX_RETRIES
    /\ q.pc \in {"loop", "assemble", "save"} =>
          /\ q.calls.build = 1 + q.retry_count
          /\ q.calls.bias = 1 + q.retry_count
          /\ q.calls.review = 1 + q.retry_count
    /\ ("timeline" \in DOMAIN q /\ Aborts(q.timeline) # {}) => q.pc \in {"assemble", "save"}
    /\ \A e \in Produced :
          /\ e.calls.build = e.calls.bias /\ e.calls.bias = e.calls.review
          /\ e.calls.build = Len(e.passes)
          /\ e.calls.build <= 1 + MAX_RETRIES
    /\ \A i \in DOMAIN log :
          log[i].outcome = "exception" =>
              /\ log[i].raised_by \in Collaborators
              /\ log[i].calls.build <= 1 + MAX_RETRIES
              /\ (Len(log[i].passes) = 1 + MAX_RETRIES /\ AllReport(log[i].passes))
                    => log[i].raised_by = "save_interaction"

\* a call that used up its budget has returned its Result
C1_Witness ==
    \E e \in Returned :
        /\ ~e.hit
        /\ Len(e.passes) = 1 + MAX_RETRIES
        /\ AllReport(e.passes)
        /\ e.calls.build = 3

\* C2: a Result carries a 'mitigation_aborted' entry exactly when all three
\* review passes reported bias or misalignment; it is then the only such
\* entry and the last of the timeline, three review passes were made, and
\* bias_flag is the last bias verdict.
C2_Exhaustion ==
    \A e \in Produced :
        LET n  == Len(e.passes)
            ab == Aborts(e.result.progress)
        IN  /\ Cardinality(ab) <= 1
            /\ (n = 1 + MAX_RETRIES /\ AllReport(e.passes)) <=> ab # {}
            /\ ab # {} =>
                  /\ ab = {Len(e.result.progress)}
                  /\ e.calls.bias = 3
                  /\ e.calls.review = 3
                  /\ e.result.bias_flag = e.passes[n].bias.has_bias

\* bias persisted through all three passes and the call returned
C2_Witness ==
    \E e \in Returned :
        /\ ~e.hit
        /\ \A i \in DOMAIN e.passes : e.passes[i].bias.has_bias
        /\ Len(e.passes) = 3
        /\ e.result.bias_flag
        /\ Aborts(e.result.progress) # {}

\* the first k review passes report a problem and pass k + 1 does not
FirstCleanAfter(passes, k) ==
    /\ Len(passes) >= k + 1
    /\ \A i \in 1..k : ReportsProblem(passes[i])
    /\ ~ReportsProblem(passes[k + 1])

\* C3: when the first clean review is the one after retry k, the loop stops
\* there: no further pass, the explainer was called k + 1 times, the Result
\* is marked mitigated with the strategy of retry k, and no
\* 'mitigation_aborted' entry exists.
C3_Convergence ==
    \A k \in 1..MAX_RETRIES :
        /\ ("passes" \in DOMAIN q /\ q.pc # "hit_save" /\ FirstCleanAfter(q.passes, k)) =>
              /\ q.pc \in {"assemble", "save"}
              /\ Len(q.passes) = k + 1
              /\ q.calls.build = k + 1
        /\ \A e \in Produced :
              FirstCleanAfter(e.passes, k) =>
                  /\ Len(e.passes) = k + 1
                  /\ e.calls.build = k + 1
                  /\ "mitigated" \in DOMAIN e.result
                  /\ e.result.mitigated
                  /\ e.result.retry_strategy_used =
                        (IF k = 1 THEN "emphasis" ELSE "simplification")
                  /\ Aborts(e.result.progress) = {}

\* two flagged passes, then a clean one
C3_Witness ==
    \E e \in Returned :
        /\ ~e.hit
        /\ FirstCleanAfter(e.passes, 2)
        /\ e.result.retry_strategy_used = "simplification"

\* C4: a Result is marked mitigated only when its last review reports
\* neither bias nor misalignment.
C4_MitigatedOnlyWhenResolved ==
    \A e \in Produced :
        ("mitigated" \in DOMAIN e.result /\ e.result.mitigated)
            => ~ReportsProblem(e.passes[Len(e.passes)])

\* C4 as amended: a Result carries the mitigation metadata exactly when a
\* regeneration was attempted, that is when the first review reported a
\* problem; mitigated is then true and retry_strategy_used names the
\* strategy of the last attempt, also when the budget ran out; a Result
\* marked mitigated whose timeline has no 'mitigation_aborted' entry has a
\* last review that reports neither bias nor misalignment.
C4_MitigatedWhenAttempted ==
    \A e \in Produced :
        LET n == Len(e.passes)
        IN  /\ ("mitigated" \in DOMAIN e.result) <=> ReportsProblem(e.passes[1])
            /\ ("mitigated" \in DOMAIN e.result) <=> n >= 2
            /\ "mitigated" \in DOMAIN e.result =>
                  /\ e.result.mitigated
                  /\ e.result.retry_strategy_used =
                        (IF n = 2 THEN "emphasis" ELSE "simplification")
                  /\ Aborts(e.result.progress) = {} => ~ReportsProblem(e.passes[n])

\* a Result returned after the budget ran out, marked mitigated
C4_Witness ==
    \E e \in Returned :
        /\ ~e.hit
        /\ Aborts(e.result.progress) # {}
        /\ ReportsProblem(e.passes[Len(e.passes)])
        /\ "mitigated" \in DOMAIN e.result
        /\ e.result.mitigated

\* C5: after every pass of the narrative stage, and in every Result, the
\* explanation has content; when the explainer of that pass raised, returned
\* None or returned an empty or whitespace-only explanation, the explanation
\* contains both concept names.
C5_ExplanationNeverAbsent ==
    /\ ("explanations" \in DOMAIN q) =>
          /\ HasContent(q.explanations)
          /\ q.builds[Len(q.builds)] \in NoContentBuilds =>
                /\ Contains(q.explanations, q.concept_a)
                /\ Contains(q.explanations, q.concept_b)
    /\ \A e \in Produced :
          /\ HasContent(e.result.explanations)
          /\ e.builds[Len(e.builds)] \in NoContentBuilds =>
                /\ Contains(e.result.explanations, e.concept_a)
                /\ Contains(e.result.explanations, e.concept_b)

\* a Result whose last regeneration got a whitespace-only explanation
C5_Witness ==
    \E e \in Returned :
        /\ ~e.hit
        /\ Len(e.builds) >= 2
        /\ e.builds[Len(e.builds)] = "blank"
        /\ Contains(e.result.explanations, e.concept_a)

\* C6: an explainer that returns no content gets the text an explainer that
\* raises gets.
C6_SameFallbackText ==
    \A e \in Produced :
        e.builds[Len(e.builds)] \in {"none", "empty", "blank"} =>
            e.result.explanations = FallbackExplanationText(e.concept_a, e.concept_b)

\* two finished calls with the same arguments, the first of which computed
\* its Result, and no eviction of their key in between
SameArguments(e, f) ==
    /\ e.concept_a = f.concept_a
    /\ e.concept_b = f.concept_b
    /\ e.level = f.level

Repeats(i, j) ==
    /\ i < j
    /\ log[i].outcome = "result"
    /\ log[j].outcome = "result"
    /\ ~log[i].hit
    /\ SameArguments(log[i], log[j])
    /\ \A m \in (i + 1)..(j - 1) : log[i].cache_key \notin log[m].evicted

StagesOfACall == {"context", "find", "build", "bias", "review"}

\* the calls started so far that hit, and that missed, the cache
StartedHits ==
    Cardinality({ i \in DOMAIN log : log[i].hit }) + (IF q.pc = "hit_save" THEN 1 ELSE 0)

StartedMisses ==
    Cardinality({ i \in DOMAIN log : ~log[i].hit })
        + (IF q.pc \notin {"idle", "hit_save"} THEN 1 ELSE 0)

\* C7: of two calls with the same arguments and no eviction in between, the
\* second returns a Result equal to the first's, every stage is invoked
\* exactly once over the two calls, and the metrics of a fresh orchestrator
\* after the two show one miss and one hit.
C7_EveryStageOnce ==
    \A i, j \in DOMAIN log :
        Repeats(i, j) =>
            /\ log[j].result = log[i].result
            /\ log[j].hit
            /\ \A st \in StagesOfACall : log[i].calls[st] + log[j].calls[st] = 1
            /\ (i = 1 /\ j = 2 /\ Len(log) = 2 /\ q.pc = "idle") =>
                  metrics.cache_misses = 1 /\ metrics.cache_hits = 1

\* C7 as amended: of two calls with the same arguments and no eviction in
\* between, the second is a cache hit that returns a Result equal to the
\* first's and invokes no stage; context preparation and the path-finder are
\* invoked exactly once over the two calls, the explainer and the two
\* reviews as often as the first call had review passes (one to three);
\* every started call counts as one hit or one miss, so a fresh
\* orchestrator shows one miss and one hit after the two.
C7_SecondCallFromCache ==
    /\ metrics.cache_hits = StartedHits
    /\ metrics.cache_misses = StartedMisses
    /\ \A i, j \in DOMAIN log :
          Repeats(i, j) =>
              /\ log[j].result = log[i].result
              /\ log[j].hit
              /\ log[j].calls = NoCalls
              /\ log[i].calls.context = 1
              /\ log[i].calls.find = 1
              /\ log[i].calls.build = Len(log[i].passes)
              /\ log[i].calls.bias = Len(log[i].passes)
              /\ log[i].calls.review = Len(log[i].passes)
              /\ Len(log[i].passes) \in 1..(1 + MAX_RETRIES)
              /\ (i = 1 /\ j = 2 /\ Len(log) = 2 /\ q.pc = "idle") =>
                    metrics.cache_misses = 1 /\ metrics.cache_hits = 1

\* a first call that regenerated twice, the same call again served from the
\* cache
C7_Witness ==
    /\ Len(log) = 2
    /\ q.pc = "idle"
    /\ Repeats(1, 2)
    /\ log[1].calls.build = 3
    /\ log[2].hit
    /\ metrics.cache_misses = 1
    /\ metrics.cache_hits = 1

\* the calls that returned a Result, oldest first
ReturnedCalls == SelectSeq(log, LAMBDA e : e.outcome = "result")

RECURSIVE Acquired(_)
Acquired(entries) ==
    IF entries = <<>> THEN 0 ELSE Head(entries).calls.acquire + Acquired(Tail(entries))

\* C8: a call that hits the cache counts one cache hit, invokes neither
\* context preparation nor the path-finder, the explainer, a review or the
\* rate limiter, saves the interaction once with the cached Result and
\* returns that Result; the history holds exactly one record per returned
\* call, in order, with the Result the call returned.
C8_HitSavesAndReturnsCached ==
    /\ metrics.cache_hits = StartedHits
    /\ q.pc = "hit_save" =>
          /\ q.calls = NoCalls
          /\ q.cache_key \in Keys(cache)
          /\ q.cached = cache[IndexOf(cache, q.cache_key)].value
    /\ \A i \in DOMAIN log :
          log[i].hit =>
              /\ log[i].calls = NoCalls
              /\ log[i].outcome = "result" =>
                    \E m \in 1..(i - 1) :
                        /\ log[m].outcome = "result"
                        /\ ~log[m].hit
                        /\ log[m].cache_key = log[i].cache_key
                        /\ log[m].result = log[i].result
    /\ Len(requests) = Acquired(log) + (IF q.pc = "idle" THEN 0 ELSE q.calls.acquire)
    /\ Len(history) = Len(ReturnedCalls)
    /\ \A n \in DOMAIN history :
          history[n] = [ session_id |-> ReturnedCalls[n].session_id,
                         concept_a  |-> ReturnedCalls[n].concept_a,
                         concept_b  |-> ReturnedCalls[n].concept_b,
                         result     |-> ReturnedCalls[n].result ]

\* a caller with a session served from the cache, its interaction saved
C8_Witness ==
    /\ Len(log) = 2
    /\ q.pc = "idle"
    /\ log[1].outcome = "result"
    /\ log[2].outcome = "result"
    /\ log[2].hit
    /\ log[2].calls = NoCalls
    /\ Len(history) = 2
    /\ history[2].session_id = "s1"
    /\ history[2].result = log[1].result

\* equality of two texts up to the case of their letters
SameLetter(c, d) ==
    c = d \/ {c, d} \in { {"A", "a"}, {"B", "b"}, {"G", "g"}, {"O", "o"}, {"R", "r"} }

EqualIgnoringCase(s, t) ==
    Len(s) = Len(t) /\ \A i \in DOMAIN s : SameLetter(s[i], t[i])

NoUpperCase(s) == \A i \in DOMAIN s : s[i] \notin {"A", "B", "G", "O", "R"}

Agree(e, f) ==
    /\ EqualIgnoringCase(e.concept_a, f.concept_a)
    /\ EqualIgnoringCase(e.concept_b, f.concept_b)
    /\ EqualIgnoringCase(e.level, f.level)

LoweredTriple(e) ==
    /\ Len(e.cache_key) = 3
    /\ EqualIgnoringCase(e.cache_key[1], e.concept_a) /\ NoUpperCase(e.cache_key[1])
    /\ EqualIgnoringCase(e.cache_key[2], e.concept_b) /\ NoUpperCase(e.cache_key[2])
    /\ EqualIgnoringCase(e.cache_key[3], e.level) /\ NoUpperCase(e.cache_key[3])

\* C9: the key of a call is the triple of its two concepts and its level in
\* lower case; the second of two calls is served from the entry of the first
\* exactly when the two agree, in the same order, on both concepts and the
\* level up to case, and otherwise gets an entry of its own.
C9_KeyIsLoweredTriple ==
    /\ q.pc # "idle" => LoweredTriple(q)
    /\ \A i \in DOMAIN log : LoweredTriple(log[i])
    /\ (Len(log) = 1 /\ q.pc # "idle") => (q.hit <=> Agree(log[1], q))
    /\ Len(log) = 2 =>
          /\ log[2].hit <=> Agree(log[1], log[2])
          /\ (log[1].cache_key = log[2].cache_key) <=> Agree(log[1], log[2])
          /\ Len(cache) = (IF Agree(log[1], log[2]) THEN 1 ELSE 2)

\* the same pair asked the other way round gets an entry of its own
C9_Witness ==
    /\ Len(log) = 2
    /\ log[1].concept_a = log[2].concept_b
    /\ log[1].concept_b = log[2].concept_a
    /\ log[1].level = log[2].level
    /\ ~EqualIgnoringCase(log[1].concept_a, log[1].concept_b)
    /\ ~log[2].hit
    /\ Len(cache) = 2

\* what the log says of a key: the entries that used it (a get that found
\* it, a set, a call that hit it or stored its Result) and those that stored
\* it
Touches(e, key) ==
    /\ e.cache_key = key
    /\ \/ e.outcome = "get" /\ e.hit
       \/ e.outcome = "set"
       \/ e.outcome = "result"
       \/ e.outcome = "exception" /\ e.hit

Stores(e, key) ==
    /\ e.cache_key = key
    /\ e.outcome = "set" \/ (e.outcome = "result" /\ ~e.hit)

Largest(S) == CHOOSE x \in S : \A y \in S : y <= x

LastUse(key) ==
    IF q.pc = "hit_save" /\ q.cache_key = key THEN Len(log) + 1
    ELSE Largest({0} \cup { i \in DOMAIN log : Touches(log[i], key) })

EverStored == { log[i].cache_key : i \in { j \in DOMAIN log : Stores(log[j], log[j].cache_key) } }

Smaller(a, b) == IF a < b THEN a ELSE b

\* C10: the cache never holds more than maxsize entries and drops one only
\* when a new key exceeds the capacity; its entries are in the order of
\* their last use (a get that found the key, or a set), and every key that
\* was stored and is gone was last used before every key still held, so the
\* one dropped was the least recently used; a call whose key is gone misses
\* and invokes the path-finder.
C10_LeastRecentlyUsedEvicted ==
    /\ Len(cache) <= env.cache_size
    /\ Cardinality(Keys(cache)) = Len(cache)
    /\ Keys(cache) \subseteq EverStored
    /\ Len(cache) = Smaller(env.cache_size, Cardinality(EverStored))
    /\ \A x, y \in DOMAIN cache :
          x < y => LastUse(cache[x].key) < LastUse(cache[y].key)
    /\ \A gone \in EverStored \ Keys(cache) :
          \A kept \in Keys(cache) : LastUse(gone) < LastUse(kept)
    /\ \A i \in DOMAIN log :
          /\ Cardinality(log[i].evicted) <= 1
          /\ log[i].evicted # {} => Stores(log[i], log[i].cache_key) /\ ~log[i].hit
          /\ (log[i].outcome = "result" /\ ~log[i].hit) => log[i].calls.find = 1
    /\ q.pc = "hit_save" => q.cache_key \in Keys(cache)
    /\ q.pc \notin {"idle", "hit_save"} =>
          /\ q.cache_key \notin Keys(cache)
          /\ q.pc \notin {"context", "connection"} => q.calls.find = 1

\* two keys stored, the older one read, a third stored: the one not read is
\* dropped, and a call for it misses and asks the path-finder
C10_Witness ==
    /\ Len(log) = 5
    /\ log[1].outcome = "set"
    /\ log[2].outcome = "set"
    /\ log[2].cache_key # log[1].cache_key
    /\ log[3].outcome = "get" /\ log[3].hit
    /\ log[3].cache_key = log[1].cache_key
    /\ log[4].outcome = "set"
    /\ log[4].evicted = {log[2].cache_key}
    /\ log[5].outcome = "result"
    /\ log[5].cache_key = log[2].cache_key
    /\ ~log[5].hit
    /\ log[5].calls.find = 1

\* the value the latest set of a key recorded, among the first n entries
LastSetValue(key, n) ==
    log[Largest({ i \in 1..n : log[i].outcome = "set" /\ log[i].cache_key = key })].value

StoredCells == UNION { CellsOf(heap.cells, cache[i].value) : i \in DOMAIN cache }

\* C11: no cell of a stored Result is a cell of a Result a caller holds, and
\* no two Results held share a cell; so through every change a caller makes
\* to a Result it was returned, on a hit or a miss, the value stored under a
\* key stays the value that was set, and every get returns that value.
C11_DeepCopyIsolation ==
    /\ \A a \in heap.held : CellsOf(heap.cells, a) \cap StoredCells = {}
    /\ \A a, b \in heap.held : a # b => CellsOf(heap.cells, a) \cap CellsOf(heap.cells, b) = {}
    /\ \A i \in DOMAIN cache :
          ValueAt(heap.cells, cache[i].value) = LastSetValue(cache[i].key, Len(log))
    /\ \A j \in DOMAIN log :
          log[j].outcome = "get" => log[j].value = LastSetValue(log[j].cache_key, j)

\* a caller changed the Result it built and the copy it was then returned,
\* dict and timeline, and a later get still returns what was set
C11_Witness ==
    /\ Len(log) >= 4
    /\ log[1].outcome = "set"
    /\ log[2].outcome = "mutate" /\ log[2].value = "append"
    /\ log[3].outcome = "get" /\ log[3].cache_key = log[1].cache_key
    /\ log[4].outcome = "mutate"
    /\ \A a \in heap.held : ValueAt(heap.cells, a) # log[1].value
    /\ \E i \in DOMAIN cache :
          cache[i].key = log[1].cache_key /\ ValueAt(heap.cells, cache[i].value) = log[1].value

\* C12: a call never ends in the exception of the history store: when
\* save_interaction raises, on a hit or after the pipeline, the call still
\* returns its Result.
C12_PersistenceFailureKeepsResult ==
    \A i \in DOMAIN log :
        log[i].outcome = "exception" => log[i].raised_by # "save_interaction"

\* the step ends the call in flight, which missed the cache
EndsMiss(how) ==
    /\ q.pc \notin {"idle", "hit_save"}
    /\ q'.pc = "idle"
    /\ log'[Len(log')].outcome = how

\* C13: a call that missed the cache leaves the cache and the history as
\* they were when it started, through every stage and when it ends in an
\* exception; it writes them in one step, after the mitigation loop, and
\* what it writes is its final Result: one history row, and the entry of its
\* key.
C13_NoPartialCommit ==
    [][ /\ (q.pc = "idle" /\ q'.pc = "context") => (cache' = cache /\ history' = history)
        /\ (q.pc \notin {"idle", "hit_save"} /\ q'.pc # "idle")
              => (cache' = cache /\ history' = history)
        /\ EndsMiss("exception") => (cache' = cache /\ history' = history)
        /\ EndsMiss("result") =>
              /\ q.pc = "save"
              /\ ~q.mitigation_triggered \/ q.retry_count = MAX_RETRIES
              /\ q.result = ResultOf(q)
              /\ history' = Append(history, [ session_id |-> q.session_id,
                                              concept_a  |-> q.concept_a,
                                              concept_b  |-> q.concept_b,
                                              result     |-> q.result ])
              /\ cache'[Len(cache')] = [key |-> q.cache_key, value |-> q.result]
              /\ \A i \in DOMAIN cache' :
                    i < Len(cache') =>
                        \E j \in DOMAIN cache : cache[j] = cache'[i] /\ cache[j].key # q.cache_key
      ]_vars

\* a call ended in a reviewer's exception on a retry pass, after another
\* call's Result was stored, and store and history still hold just that
C13_Witness ==
    /\ Len(log) = 2
    /\ log[1].outcome = "result"
    /\ log[2].outcome = "exception"
    /\ log[2].raised_by \in {"bias_monitor", "content_reviewer"}
    /\ Len(log[2].passes) >= 1
    /\ Len(cache) = 1
    /\ cache[1].value = log[1].result
    /\ Len(history) = 1

\* C14: the exception of the explainer never leaves a call: the pass gets
\* the fallback text and no analogies and the call goes on; a call that
\* ends in an exception returns no Result, and the exception is the path
\* finder's (nothing built yet), a reviewer's (raised in the pass after the
\* last one recorded, first or retry) or the history store's; a call that
\* returns a Result had every call to the path finder and the reviewers
\* return.
C14_MaskedOnlyAtNarrative ==
    /\ ("explanations" \in DOMAIN q /\ q.builds[Len(q.builds)] = "raise") =>
          /\ q.explanations = FallbackExplanationText(q.concept_a, q.concept_b)
          /\ q.analogies = <<>>
    /\ \A i \in DOMAIN log :
          /\ log[i].raised_by # "explanation_builder"
          /\ log[i].outcome = "exception" =>
                /\ log[i].result = PyNone
                /\ log[i].raised_by = "connection_finder" =>
                      log[i].calls.find = 1 /\ log[i].calls.build = 0
                /\ log[i].raised_by \in {"bias_monitor", "content_reviewer"} =>
                      /\ log[i].calls.bias = Len(log[i].passes) + 1
                      /\ log[i].calls.review = Len(log[i].passes) + 1
                      /\ log[i].calls.build = Len(log[i].passes) + 1
                /\ log[i].raised_by = "save_interaction" =>
                      log[i].hit \/ log[i].calls.bias = Len(log[i].passes)
          /\ (log[i].outcome = "result" /\ ~log[i].hit) =>
                /\ log[i].calls.find = 1
                /\ log[i].calls.bias = Len(log[i].passes)
                /\ log[i].calls.review = Len(log[i].passes)
                /\ Len(log[i].builds) = Len(log[i].passes)

\* the explainer raised on the first pass and on a retry, and the call
\* returned a Result with the fallback text
C14_Witness ==
    \E e \in Returned :
        /\ ~e.hit
        /\ Len(e.builds) >= 2
        /\ e.builds[1] = "raise"
        /\ e.builds[Len(e.builds)] = "raise"
        /\ e.result.explanations = FallbackExplanationText(e.concept_a, e.concept_b)

\* C15: after every admission by the limiter, at most max_requests of the
\* recorded timestamps, the admitted one included, are no older than
\* time_window.
C15_CeilingAtAdmission ==
    requests # <<>> =>
        Cardinality({i \in DOMAIN requests :
                        requests[i] >= requests[Len(requests)] - env.time_window})
            <= env.max_requests

\* C16: an acquire that finds max_requests timestamps in the window is not
\* admitted before the window of the oldest of them ended; an acquire
\* sleeps only if max_requests acquires were admitted before it came, so the
\* first max_requests acquires do not sleep; and with max_requests = 3 and
\* time_window = 1 second the fourth acquire is admitted a second or more
\* after the first.
C16_Backpressure ==
    \A p \in DOMAIN procs :
        /\ procs[p].sleeps > 0 => procs[p].before >= env.max_requests
        /\ procs[p].pc = "done" =>
              /\ procs[p].admitted >= procs[p].floor
              /\ (env = LimiterUnderTest /\ p = 4) =>
                    procs[p].admitted >= procs[1].admitted + 1 * TicksPerSecond

\* the limiter of the test: three acquires admitted at once without a
\* sleep, the fourth found the window full, slept and was admitted
C16_Witness ==
    /\ env = LimiterUnderTest
    /\ \A p \in 1..3 : procs[p].pc = "done" /\ procs[p].sleeps = 0 /\ procs[p].admitted = 0
    /\ procs[4].pc = "done"
    /\ procs[4].sleeps = 1
    /\ procs[4].floor = 1 * TicksPerSecond
    /\ procs[4].before = 3

\* C17: a task whose sleep ended is admitted only in a step in which the
\* window, looked at again, has room or its oldest timestamp has aged out,
\* and sleeps again otherwise; and every task that sleeps in acquire is
\* admitted in the end.
C17_Progress ==
    /\ [][ \A p \in DOMAIN procs :
              (procs[p].pc = "sleeping" /\ procs'[p] # procs[p]) =>
                  IF MustSleep(requests, now)
                  THEN /\ procs'[p].pc = "sleeping"
                       /\ procs'[p].wake > now
                       /\ Len(requests') <= Len(requests)
                  ELSE procs'[p].pc = "done" ]_vars
    /\ \A p \in 1..NumCallers :
          (procs[p].pc = "sleeping") ~> (procs[p].pc = "done")

\* a task slept, found the slot taken when it woke, slept again and was
\* admitted
C17_Witness ==
    \E p \in DOMAIN procs : procs[p].pc = "done" /\ procs[p].sleeps >= 2

AllCompleted == \A t \in DOMAIN procs : procs[t].pc = "done"

\* C18: once the calls in flight together have all completed, as coroutines
\* or as threads, every call is counted as a hit or as a miss, the limiter
\* holds a timestamp for every acquire, every call has its history row, and
\* the cache holds at most cache_size entries, one for a key.
C18_SharedStateSafe ==
    AllCompleted =>
        /\ metrics.cache_hits + metrics.cache_misses = Cardinality(DOMAIN procs)
        /\ metrics.cache_hits = Cardinality({t \in DOMAIN procs : procs[t].hit})
        /\ Len(requests) = 2 * Cardinality({t \in DOMAIN procs : ~procs[t].hit})
        /\ Len(history) = Cardinality(DOMAIN procs)
        /\ Len(cache) <= env.cache_size
        /\ Cardinality(Keys(cache)) = Len(cache)

ProfileFields ==
    { "session_id", "knowledge_level", "preferred_examples", "education_level",
      "education_system", "concept_a_knowledge", "concept_b_knowledge" }

\* the profile of the session before the overrides
Fetched(e) ==
    IF e.session_id = "None" THEN DefaultProfile(e.level)
    ELSE get_profile(e.row, e.session_id)

\* C19: in the profile of a prepared context, a field whose override is not
\* null holds the override; every other field, overridden with null or not
\* overridden, holds the stored or default value if there is one, and is
\* absent if there is none.
C19_OverridePrecedence ==
    \A i \in DOMAIN log :
        log[i].outcome = "context" =>
            \A f \in ProfileFields :
                LET over == log[i].overrides
                    prof == log[i].ctx.profile
                    base == Fetched(log[i])
                IN  IF f \in DOMAIN over /\ over[f] # PyNone
                    THEN f \in DOMAIN prof /\ prof[f] = over[f].value
                    ELSE IF f \in DOMAIN base
                         THEN f \in DOMAIN prof /\ prof[f] = base[f]
                         ELSE f \notin DOMAIN prof

\* a stored "undergrad" survived a null override while the stored
\* knowledge of concept A was replaced by 5 and the stored level was kept
C19_Witness ==
    \E i \in DOMAIN log :
        /\ log[i].outcome = "context"
        /\ log[i].session_id = "s1"
        /\ log[i].row.present
        /\ log[i].row.education_level = "undergrad"
        /\ log[i].row.concept_a_knowledge = 3
        /\ "education_level" \in DOMAIN log[i].overrides
        /\ log[i].overrides["education_level"] = PyNone
        /\ "concept_a_knowledge" \in DOMAIN log[i].overrides
        /\ "knowledge_level" \notin DOMAIN log[i].overrides
        /\ log[i].ctx.profile["education_level"] = "undergrad"
        /\ log[i].ctx.profile["concept_a_knowledge"] = 5
        /\ log[i].ctx.profile["knowledge_level"] = <<"b">>

\* the reviews of the latest pass were joined
Joined == q.pc # "idle" /\ procs.pass >= 1 /\ Len(q.passes) = procs.pass

\* C20: the two reviews of a pass get the same bundle, which is the
\* connection, explanation and analogies of that pass; while one of them is
\* outstanding the pass is not recorded, the mitigation condition is that of
\* the pass before and no further narrative is built; and once joined each
\* review is recorded under its own name and the mitigation condition is
\* computed from the two, whichever completed first.
C20_FanOutJoin ==
    /\ Started =>
          /\ procs.bias_bundle = Bundle(q)
          /\ procs.content_bundle = procs.bias_bundle
          /\ Len(q.builds) = procs.pass
          /\ q.calls.bias = procs.pass - 1
          /\ procs.pass > 1 => q.mitigation_triggered
    /\ Joined =>
          /\ Len(procs.done) = 2
          /\ procs.bias.kind = "return" /\ procs.content.kind = "return"
          /\ q.passes[procs.pass] = [bias |-> procs.bias.value, content |-> procs.content.value]
          /\ q.bias_review = procs.bias.value
          /\ q.content_review = procs.content.value
          /\ q.mitigation_triggered =
                MitigationTriggered(procs.bias.value, procs.content.value)
          /\ Len(q.builds) <= procs.pass + 1
    /\ \A i \in DOMAIN log :
          log[i].outcome = "exception" =>
              /\ procs[IF log[i].raised_by = "bias_monitor" THEN "bias" ELSE "content"].kind = "raise"
              /\ Len(log[i].passes) = procs.pass - 1

\* on a retry pass the content review completed first and the bias review
\* second; the pass was joined with bias found and the level aligned
C20_Witness ==
    /\ Joined
    /\ procs.pass = 2
    /\ procs.done = <<"content_reviewer", "bias_monitor">>
    /\ procs.bias.tag = "biased"
    /\ procs.content.tag = "aligned"
    /\ q.mitigation_triggered

\* the strategies named by the regenerations of a timeline, in order
RECURSIVE StrategiesOf(_)
StrategiesOf(timeline) ==
    IF timeline = <<>> THEN <<>>
    ELSE IF "strategy" \in DOMAIN Head(timeline)
         THEN <<Head(timeline).strategy>> \o StrategiesOf(Tail(timeline))
         ELSE StrategiesOf(Tail(timeline))

\* C21: attempt 1 selects EMPHASIS, attempt 2 SIMPLIFICATION and every later
\* attempt RESTRUCTURE; and with MAX_RETRIES = 2 no call composes its
\* guidance with the RESTRUCTURE prefix, names RESTRUCTURE in its timeline
\* or reports it as the strategy used: the guidance of attempt n starts with
\* the prefix of the strategy of n, and the timeline names EMPHASIS, then
\* SIMPLIFICATION.
C21_StrategyByAttempt ==
    /\ _get_retry_strategy(1) = EMPHASIS
    /\ _get_retry_strategy(2) = SIMPLIFICATION
    /\ \A n \in 3..(MAX_RETRIES + 3) : _get_retry_strategy(n) = RESTRUCTURE
    /\ ("retry_count" \in DOMAIN q /\ q.retry_count > 0) =>
          /\ q.retry_count <= 2
          /\ SubSeq(q.mitigation_guidance, 1, 1) =
                (IF q.retry_count = 1 THEN strategy_prefixes.emphasis
                                      ELSE strategy_prefixes.simplification)
          /\ StrategiesOf(q.timeline) \in
                { <<>>, <<EMPHASIS>>, <<EMPHASIS, SIMPLIFICATION>> }
    /\ \A e \in Produced :
          /\ RESTRUCTURE \notin { StrategiesOf(e.result.progress)[i] :
                                    i \in DOMAIN StrategiesOf(e.result.progress) }
          /\ "retry_strategy_used" \in DOMAIN e.result =>
                /\ e.result.retry_strategy_used \in {EMPHASIS, SIMPLIFICATION}
                /\ SubSeq(e.result.mitigation_guidance, 1, 1) # strategy_prefixes.restructure

\* a call that used both attempts and gave up: EMPHASIS, then SIMPLIFICATION
C21_Witness ==
    \E e \in Returned :
        /\ ~e.hit
        /\ StrategiesOf(e.result.progress) = <<EMPHASIS, SIMPLIFICATION>>
        /\ Aborts(e.result.progress) # {}
        /\ e.result.retry_strategy_used = SIMPLIFICATION
        /\ SubSeq(e.result.mitigation_guidance, 1, 1) = strategy_prefixes.simplification

Range(seq) == { seq[i] : i \in DOMAIN seq }

\* C22: no connection is both idle and in use, or idle twice; at most
\* pool_size are idle; acquire put into use the connection that was idle
\* last, or a new one when none was idle; release of a connection in use
\* made it idle if fewer than pool_size were idle and closed it otherwise;
\* release of any other connection changed nothing.
C22_PoolBookkeeping ==
    /\ Range(db._pool) \cap db._in_use = {}
    /\ Cardinality(Range(db._pool)) = Len(db._pool)
    /\ Len(db._pool) <= db.pool_size
    /\ db.last.op = "acquire" =>
          /\ db._in_use = db.last._in_use \cup {db.last.conn}
          /\ db.last.conn \notin db.last._in_use
          /\ db.closed = db.last.closed
          /\ IF db.last._pool # <<>>
             THEN /\ db.last.conn = db.last._pool[Len(db.last._pool)]
                  /\ db._pool = SubSeq(db.last._pool, 1, Len(db.last._pool) - 1)
                  /\ db.made = db.last.made
             ELSE /\ db.last.conn = db.last.made + 1
                  /\ db.made = db.last.conn
                  /\ db._pool = <<>>
    /\ db.last.op = "release" =>
          /\ db.made = db.last.made
          /\ IF db.last.conn \in db.last._in_use
             THEN /\ db._in_use = db.last._in_use \ {db.last.conn}
                  /\ IF Len(db.last._pool) < db.pool_size
                     THEN db._pool = Append(db.last._pool, db.last.conn)
                          /\ db.closed = db.last.closed
                     ELSE db._pool = db.last._pool
                          /\ db.closed = db.last.closed \cup {db.last.conn}
             ELSE /\ db._in_use = db.last._in_use
                  /\ db._pool = db.last._pool
                  /\ db.closed = db.last.closed

\* with pool_size idle again, an extra connection was released and closed
C22_Witness ==
    /\ db.last.op = "release"
    /\ db.last.conn > db.pool_size
    /\ db.last.conn \in db.closed
    /\ Len(db._pool) = db.pool_size
    /\ db.pool_size = 2

Audits == { log[i] : i \in { j \in DOMAIN log : log[j].outcome = "audit" } }

\* not a dict with entries, no text, no analogy
EmptyAudit(e) ==
    /\ e.connection = PyDict(NoKeys)
    /\ e.explanations = PyStr(<<>>)
    /\ e.analogies = PyList(<<>>)

\* C23: every audit reports the three metrics, discipline diversity,
\* language accessibility and analogy variety in this order, each with a
\* value between 0 and 1 (0 to 100 hundredths), and an overall score
\* between 0 and 1; the audit of ({}, "", []) reports each metric with the
\* value 0 and the text that says nothing was supplied, and the overall
\* score 0.
C23_FairnessAudit ==
    \A e \in Audits :
        /\ Len(e.report.metrics) = 3
        /\ e.report.metrics[1].label = "Discipline diversity"
        /\ e.report.metrics[2].label = "Language accessibility"
        /\ e.report.metrics[3].label = "Analogy variety"
        /\ \A i \in 1..3 : e.report.metrics[i].value \in 0..100
        /\ e.report.overall \in 0..100
        /\ EmptyAudit(e) =>
              /\ \A i \in 1..3 : e.report.metrics[i].value = 0
              /\ e.report.metrics[1].detail = [text |-> "No disciplines supplied"]
              /\ e.report.metrics[2].detail = [text |-> "No explanation text available"]
              /\ e.report.metrics[3].detail = [text |-> "No analogies generated"]
              /\ e.report.overall = 0

\* the audit of the empty input
C23_Witness == \E e \in Audits : EmptyAudit(e) /\ e.report.overall = 0

\* the rows of a table written at or after a time
NotOlder(rows, cutoff) == SelectSeq(rows, LAMBDA row : row.at >= cutoff)

\* C24: a cleanup leaves in both tables exactly the rows written at or
\* after the cutoff, unchanged and in their order, deletes every row written
\* before it, and returns the number of rows it deleted from the two tables.
C24_CleanupByAge ==
    (db.opened /\ db.last.op = "cleanup") =>
        /\ db.conversations = NotOlder(db.last.conversations, db.last.cutoff)
        /\ db.feedback = NotOlder(db.last.feedback, db.last.cutoff)
        /\ db.last.returned =
              (Len(db.last.conversations) - Len(db.conversations))
              + (Len(db.last.feedback) - Len(db.feedback))

\* a cleanup that deleted from both tables and kept a row written at the cutoff
C24_Witness ==
    /\ db.opened
    /\ db.last.op = "cleanup"
    /\ Len(db.conversations) < Len(db.last.conversations)
    /\ Len(db.feedback) < Len(db.last.feedback)
    /\ \E i \in DOMAIN db.conversations : db.conversations[i].at = db.last.cutoff

Summaries == { log[i] : i \in { j \in DOMAIN log : log[j].outcome = "summary" } }

\* v is n / d to the nearest hundredth, or 0 when d is 0
IsRatio(v, n, d) ==
    IF d = 0 THEN v = 0
    ELSE /\ 2 * (v * d - 100 * n) <= d
         /\ 2 * (100 * n - v * d) <= d

Count(values, x) == Cardinality({ i \in DOMAIN values : values[i] = x })

Reported(e) ==
    LET m == e.of
        r == e.summary
    IN  /\ IsRatio(r.cache_hit_rate, m.cache_hits, m.cache_hits + m.cache_misses)
        /\ IsRatio(r.avg_retries, Sum(m.retry_counts), Len(m.retry_counts))
        /\ IsRatio(r.mitigation_success_rate,
                   Count(m.mitigation_success_rate, 1), Len(m.mitigation_success_rate))
        /\ DOMAIN r.avg_stage_durations = DOMAIN m.stage_durations
        /\ \A stage \in DOMAIN r.avg_stage_durations :
               IsRatio(r.avg_stage_durations[stage],
                       Sum(m.stage_durations[stage]), 100 * Len(m.stage_durations[stage]))
        /\ r.agent_failures = m.agent_failures

\* C25: a summary leaves the collector as it was, and reports the hits
\* over the lookups, the mean of the recorded retry counts, the fraction of
\* the recorded retries that succeeded and, for each stage with a sample and
\* no other, the mean of its samples, each to the nearest hundredth; a
\* figure without a sample is 0.
C25_SummarySnapshot ==
    /\ [](\A e \in Summaries : Reported(e))
    /\ [][log' # log => metrics' = metrics]_vars

\* a summary of a collector with a hit and a miss, two samples of one
\* stage, none of another and no retry
C25_Witness ==
    \E e \in Summaries :
        /\ e.of.cache_hits > 0 /\ e.of.cache_misses > 0
        /\ e.of.retry_counts = <<>>
        /\ e.summary.avg_retries = 0
        /\ DOMAIN e.summary.avg_stage_durations = {"connection"}
        /\ Len(e.of.stage_durations["connection"]) = 2
        /\ e.summary.cache_hit_rate = 50
        /\ e.of = metrics

MitigationKeys == {"mitigated", "mitigation_guidance", "retry_strategy_used"}

\* the call went round the mitigation loop: it regenerated or gave up
Entered(builds, progress) == Len(builds) > 1 \/ Aborts(progress) # {}

\* C26: a call goes round the mitigation loop exactly when its first review
\* pass reports bias or a level_alignment that is false (a verdict without
\* level_alignment does not); a call that does not makes one call to the
\* explainer and none to record_retry, and its Result has no mitigated,
\* mitigation_guidance or retry_strategy_used.
C26_MitigationEntry ==
    /\ ("passes" \in DOMAIN q /\ q.pc # "hit_save" /\ q.passes # <<>>) =>
          /\ ReportsProblem(q.passes[1]) \/ q.pc \notin {"retry_narrative", "retry_review"}
          /\ ~ReportsProblem(q.passes[1]) =>
                /\ q.retry_count = 0
                /\ q.calls.build = 1
                /\ metrics.retry_counts = <<>>
    /\ \A e \in Returned :
          ~e.hit =>
              /\ Entered(e.builds, e.result.progress) <=> ReportsProblem(e.passes[1])
              /\ ~ReportsProblem(e.passes[1]) =>
                    /\ e.calls.build = 1
                    /\ Len(e.passes) = 1
                    /\ metrics.retry_counts = <<>>
                    /\ MitigationKeys \cap DOMAIN e.result = {}
              /\ ReportsProblem(e.passes[1]) =>
                    /\ MitigationKeys \subseteq DOMAIN e.result
                    /\ metrics.retry_counts # <<>>

\* a Result whose only review pass had no bias and a verdict without
\* level_alignment
C26_Witness ==
    \E e \in Returned :
        /\ ~e.hit
        /\ Len(e.passes) = 1
        /\ "level_alignment" \notin DOMAIN e.passes[1].content
        /\ ~e.passes[1].bias.has_bias
        /\ "mitigated" \notin DOMAIN e.result

Composed == { log[i] : i \in { j \in DOMAIN log : log[j].outcome = "guidance" } }

Actions(e) == Get(e.content_review, "suggested_actions", <<>>)

Reasons(e) == Get(e.bias_review, "raw", <<>>)

\* the parts after the prefix, each only when it is not empty
PartsOf(e) ==
    (IF e.base_guidance # <<>> THEN <<e.base_guidance>> ELSE <<>>)
    \o (IF Actions(e) # <<>>
        THEN << <<"Reviewer actions: ">> \o Join(<<", ">>, Actions(e)) >> ELSE <<>>)
    \o (IF Reasons(e) # <<>>
        THEN << <<"Bias adjustments: ">> \o Join(<<" | ">>, Reasons(e)) >> ELSE <<>>)

\* C27: the guidance is the prefix of the strategy followed by the prior
\* guidance, the reviewer's actions and the bias reasons, each only when it
\* is not empty; with all three empty it is the generic instruction
\* 'Rewrite for clarity and inclusivity.'.
C27_GuidanceComposition ==
    \A e \in Composed :
        IF PartsOf(e) = <<>>
        THEN e.returned = <<"Rewrite for clarity and inclusivity.">>
        ELSE e.returned = Join(<<" ">>, <<strategy_prefixes[e.strategy]>> \o PartsOf(e))

StagesOf(timeline) == [i \in DOMAIN timeline |-> timeline[i].stage]

RECURSIVE Rounds(_)
Rounds(k) == IF k = 0 THEN <<>> ELSE <<"narrative", "review">> \o Rounds(k - 1)

\* the timelines a finished call may have
FixedOrders ==
    { <<"context", "connection", "narrative", "review">> \o Rounds(k) \o tail :
        k \in 0..MAX_RETRIES, tail \in {<<>>, <<"mitigation_aborted">>} }

IsPrefix(s, t) == Len(s) <= Len(t) /\ s = SubSeq(t, 1, Len(s))

Occurs(stages, stage) == Cardinality({ i \in DOMAIN stages : stages[i] = stage })

\* C28: the timeline of a Result made on a miss names context, connection,
\* narrative, review, then at most MAX_RETRIES times narrative and review,
\* then at most one mitigation_aborted; while a call runs its timeline is
\* the beginning of such a sequence, and a collaborator has been called only
\* after every earlier stage was entered in the timeline: the path finder
\* after context, the n-th explainer call after connection and n - 1
\* reviews, the n-th review after n narratives.
C28_StageOrder ==
    /\ ("timeline" \in DOMAIN q /\ q.pc # "hit_save") =>
          LET stages == StagesOf(q.timeline)
          IN  /\ \E t \in FixedOrders : IsPrefix(stages, t)
              /\ q.calls.find > 0 => Occurs(stages, "context") = 1
              /\ q.calls.build > 0 =>
                    /\ Occurs(stages, "connection") = 1
                    /\ Occurs(stages, "review") >= q.calls.build - 1
              /\ q.calls.bias > 0 => Occurs(stages, "narrative") >= q.calls.bias
              /\ q.calls.review > 0 => Occurs(stages, "narrative") >= q.calls.review
    /\ \A e \in Returned :
          ~e.hit => StagesOf(e.result.progress) \in FixedOrders

\* a Result whose timeline has both regenerations and the abort
C28_Witness ==
    \E e \in Returned :
        /\ ~e.hit
        /\ StagesOf(e.result.progress) =
              <<"context", "connection", "narrative", "review">> \o Rounds(MAX_RETRIES)
                  \o <<"mitigation_aborted">>

\* the calls a frame made to the four collaborators that call the model
ModelCalls(calls) == calls.find + calls.build + calls.bias + calls.review

\* C29: at every moment of a call and at its end, the calls made to the
\* path finder, the explainer, the bias monitor and the content reviewer
\* are no more than the acquires of the rate limiter that completed before
\* them: each has one of its own.
C29_EveryCallGated ==
    /\ ("calls" \in DOMAIN q /\ q.pc # "hit_save") => ModelCalls(q.calls) <= q.calls.acquire
    /\ \A i \in DOMAIN log : ModelCalls(log[i].calls) <= log[i].calls.acquire

ParsedOutputs == { log[i] : i \in { j \in DOMAIN log : log[j].outcome = "parse" } }

\* the keys a stage's payload has
ExpectedKeys(stage) ==
    CASE stage = "explanation_builder" -> {"explanation", "analogies"}
      [] stage = "bias_monitor" -> {"has_bias", "raw"}
      [] stage = "content_reviewer" ->
             {"level_alignment", "reading_level", "issues", "suggested_actions", "bias_risk"}
      [] OTHER -> {}

\* C30: whatever text the model returned, a parsing stage returns: it
\* raises nothing, and what it returns is a dict with the keys of the stage.
C30_ParsingNeverRaises ==
    \A e \in ParsedOutputs :
        /\ ~e.result.raised
        /\ IsA("dict", e.result.value)
        /\ ExpectedKeys(e.stage) \subseteq DOMAIN e.result.value.dict

\* the list under a key of a returned payload, empty without the key
ListAt(payload, k) ==
    IF IsA("dict", payload) /\ k \in DOMAIN payload.dict /\ IsA("list", payload.dict[k])
    THEN payload.dict[k].list ELSE <<>>

\* C31: every Connection the path finder returns, the default it returns
\* when no object can be extracted included, has as many disciplines as its
\* path has concepts.
C31_PathAndDisciplines ==
    \A e \in ParsedOutputs :
        (e.stage = "connection_finder" /\ ~e.result.raised) =>
            Len(ListAt(e.result.value, "path")) = Len(ListAt(e.result.value, "disciplines"))

\* the calls the orchestrator made of its collaborators
StageCalls == { log[i] : i \in { j \in DOMAIN log : log[j].outcome = "call" } }

\* the model's text is a JSON object
WellFormed(text) ==
    LET loaded == json_loads(text)
    IN  ~loaded.raised /\ IsA("dict", loaded.value)

\* C32: given well-formed model output, the orchestrator's call of the path
\* finder and its call of the content reviewer, each awaited as the
\* orchestrator awaits it, raise nothing.
C32_StagesAccept ==
    \A e \in StageCalls :
        (e.stage \in {"connection_finder", "content_reviewer"} /\ WellFormed(e.text)) =>
            ~e.result.raised

\* a step in which the narrative wrapper ran once
NarrativeStep ==
    /\ "builds" \in DOMAIN q
    /\ "builds" \in DOMAIN q'
    /\ Len(q'.builds) = Len(q.builds) + 1

\* the explanation_builder failures counted so far
Failures(m) == m.agent_failures["explanation_builder"]

\* C33: in a pass of the narrative wrapper, an explainer that raises gives
\* an empty analogy list and one more explanation_builder failure; an
\* explainer that returns an empty explanation has the analogies it returned
\* passed on; an explainer that returns an explanation with content has its
\* explanation and its analogies passed on and no failure counted.  (Empty
\* is what the wrapper's validation takes for empty: nothing left after
\* strip().)
C33_NarrativeAccounting ==
    [][ NarrativeStep =>
          LET n   == q'.calls.build
              tag == q'.builds[Len(q'.builds)]
          IN  /\ tag = "raise" =>
                    /\ q'.analogies = <<>>
                    /\ Failures(metrics') = Failures(metrics) + 1
              /\ tag = "empty" =>
                    q'.analogies = << <<"analogy ", Digit[n]>> >>
              /\ tag = "text" =>
                    /\ q'.explanations = <<"Explanation ", Digit[n]>>
                    /\ q'.analogies = << <<"analogy ", Digit[n]>> >>
                    /\ Failures(metrics') = Failures(metrics) ]_vars

\* a regeneration whose explainer raised, after a first pass whose explainer
\* returned an empty explanation: no analogies, and both failures counted
C33_Witness ==
    /\ "builds" \in DOMAIN q
    /\ q.builds = <<"empty", "raise">>
    /\ q.analogies = <<>>
    /\ Failures(metrics) = 2

\* the fields of its overrides a query gave a value that is not None
GivenIn(profile_overrides) ==
    { k \in DOMAIN profile_overrides : profile_overrides[k] # PyNone }

\* C34: a query leaves the stored profile of every session as it was; and
\* whatever the queries before it overrode, the profile of its context
\* holds, in every field its own overrides give no value, what the store
\* holds for the session now.
C34_StoreNeverWritten ==
    [][ log' # log =>
          /\ db'.user_profiles = db.user_profiles
          /\ LET e == log'[1]
             IN  e.session_id # "None" =>
                     \A k \in DOMAIN e.ctx.profile \ GivenIn(e.overrides) :
                         e.ctx.profile[k] =
                             get_profile(db.user_profiles[e.session_id], e.session_id)[k] ]_vars

\* a query with overrides for a session whose profile is stored, after which
\* the stored row still holds what was stored
C34_Witness ==
    /\ log # <<>>
    /\ log[1].session_id = "s1"
    /\ "education_level" \in DOMAIN log[1].overrides
    /\ log[1].overrides["education_level"] = Given("PhD")
    /\ log[1].ctx.profile.education_level = "PhD"
    /\ db.user_profiles["s1"].present
    /\ db.user_profiles["s1"].education_level = "undergrad"

\* two calls in flight together as coroutines of one event loop, with the
\* same cache key
Twins(t, u) ==
    /\ env.confined
    /\ t # u
    /\ procs[t].cache_key # <<>>
    /\ procs[t].cache_key = procs[u].cache_key

\* the history rows of call t
RowsBy(t) == { i \in DOMAIN history : history[i].by = t }

\* the entries of the cache under a key
EntriesAt(key) == { i \in DOMAIN cache : cache[i].key = key }

\* the limiter's slots call c has taken: one at the connection stage, one
\* at the narrative stage
SlotsTaken(c) ==
    IF procs[c].hit THEN 0
    ELSE CASE procs[c].pc = "narrative" -> 1
           [] procs[c].pc \in {"save", "done"} -> 2
           [] OTHER -> 0

\* no call has inserted under another key
OnlyKey(key) == \A i \in DOMAIN history : history[i].cache_key = key

\* the call that missed and wrote its history row under the key last
LastInsertOf(key) ==
    LET rows == { i \in DOMAIN history : history[i].cache_key = key /\ ~procs[history[i].by].hit }
    IN  history[CHOOSE i \in rows : \A j \in rows : j <= i].by

\* C35: identical queries in flight together are not coalesced.  A call hits
\* only an entry that a call completed before its lookup inserted, so the
\* second of two calls with the same key that starts before the first has
\* inserted misses as well; when two such calls have both missed and
\* completed, each took the limiter's slots of its own connection and
\* narrative stages, each wrote one history row, and the cache holds one
\* entry for the key: the Result of the call that wrote its row last.
C35_NoCoalescing ==
    \A t, u \in DOMAIN procs :
        Twins(t, u) =>
            /\ procs[t].hit =>
                  \E c \in DOMAIN procs :
                      Twins(t, c) /\ procs[c].pc = "done" /\ ~procs[c].hit
            /\ (~procs[t].hit /\ ~procs[u].hit /\ procs[t].pc = "done" /\ procs[u].pc = "done") =>
                  /\ Len(requests) = Sum([c \in DOMAIN procs |-> SlotsTaken(c)])
                  /\ Cardinality(RowsBy(t)) = 1
                  /\ Cardinality(RowsBy(u)) = 1
                  /\ Cardinality(EntriesAt(procs[t].cache_key)) <= 1
                  /\ OnlyKey(procs[t].cache_key) =>
                        Cardinality(EntriesAt(procs[t].cache_key)) = 1
                  /\ \A i \in EntriesAt(procs[t].cache_key) :
                        cache[i].value.built_by = LastInsertOf(procs[t].cache_key)

\* both calls missed and completed, and the cache holds the Result of the
\* first of the two, which finished last
C35_Witness ==
    /\ Twins(1, 2)
    /\ ~procs[1].hit /\ ~procs[2].hit
    /\ procs[1].pc = "done" /\ procs[2].pc = "done"
    /\ history[Len(history)].by = 1
    /\ \E i \in DOMAIN cache : cache[i].value.built_by = 1

\* what the narrative wrapper gave in the last pass of a call: the explainer
\* of pass n answers with text that names n
LastNarrative(e) ==
    LET n == Len(e.builds)
    IN  _safe_generate_narrative(CHOOSE o \in BuildOutcomes(n) : o.tag = e.builds[n],
                                 e.concept_a, e.concept_b)

\* the verdicts of pass i are what the reviewers answered in their i-th call
FreshVerdicts(e) ==
    \A i \in DOMAIN e.passes :
        /\ e.passes[i].bias \in { o.value : o \in BiasOutcomes(i) \ {Raises} }
        /\ e.passes[i].content \in { o.value : o \in ReviewOutcomes(i) \ {Raises} }

\* C36: in every Result built on a miss, the explanation, the analogies,
\* bias_review, bias_flag, content_review and the fairness report are those
\* of the last pass, every pass having had verdicts of its own;
\* feedback_guidance is the guidance of the context, and is not the
\* mitigation guidance.
C36_OneLastPass ==
    \A e \in Produced :
        LET n    == Len(e.passes)
            last == e.passes[n]
            told == LastNarrative(e)
            r    == e.result
        IN  /\ Len(e.builds) = n
            /\ FreshVerdicts(e)
            /\ r.explanations = told.explanations
            /\ r.analogies = told.analogies
            /\ r.bias_review = Get(last.bias, "raw", <<>>)
            /\ r.bias_flag = Get(last.bias, "has_bias", FALSE)
            /\ r.content_review = last.content
            /\ r.fairness = evaluate(IF Truthy(r.connections) THEN r.connections ELSE EmptyDict,
                                     told.explanations, told.analogies)
            /\ r.feedback_guidance = summarise(<<>>, e.level)
            /\ "mitigation_guidance" \in DOMAIN r =>
                  r.feedback_guidance # r.mitigation_guidance

\* a Result of three passes: the first two found fault, the third did not,
\* and the Result holds the third explanation and the third content review
C36_Witness ==
    \E e \in Returned :
        /\ ~e.hit
        /\ Len(e.passes) = 3
        /\ e.builds = <<"text", "text", "text">>
        /\ e.passes[1].content # e.passes[3].content
        /\ e.result.explanations = <<"Explanation ", "3">>
        /\ e.result.content_review = e.passes[3].content
        /\ ~e.result.bias_flag

\* the calls before call j that missed, returned a Result and had its key
MissesBefore(j) ==
    { m \in 1..(j - 1) : /\ log[m].outcome = "result"
                         /\ ~log[m].hit
                         /\ log[m].cache_key = log[j].cache_key }

\* C37: a call served from the cache returns the Result of the last call
\* before it that missed with its key, whatever the session of either call,
\* and prepares no context, so that it reads no history, profile or
\* feedback, and calls no reviewer; a Result whose mitigation was aborted is
\* served as it was cached, with its bias flag and its aborted timeline.
C37_HitIgnoresSession ==
    \A j \in DOMAIN log :
        (log[j].hit /\ log[j].outcome = "result") =>
            /\ log[j].calls = NoCalls
            /\ log[j].passes = <<>>
            /\ MissesBefore(j) # {}
            /\ LET m == CHOOSE x \in MissesBefore(j) : \A y \in MissesBefore(j) : y <= x
               IN  /\ log[j].result = log[m].result
                   /\ log[j].result.bias_flag = Get(log[m].passes[Len(log[m].passes)].bias,
                                                    "has_bias", FALSE)
                   /\ Aborts(log[j].result.progress) = Aborts(log[m].result.progress)

\* a Result whose mitigation was aborted, built for a caller without a
\* session and served from the cache to a caller with one, still flagged
C37_Witness ==
    /\ Len(log) >= 2
    /\ log[1].outcome = "result" /\ ~log[1].hit
    /\ log[1].session_id = "None"
    /\ Aborts(log[1].result.progress) # {}
    /\ log[2].outcome = "result" /\ log[2].hit
    /\ log[2].session_id = "s1"
    /\ log[2].result.bias_flag
    /\ log[2].calls.context = 0

\* C38: the scope of a memory-service operation never keeps its connection.
\* A scope that was left committed when its body returned, and otherwise
\* rolled back and raised to the caller; in both cases the connection was
\* released.  Between operations no connection is in use, and while an
\* operation runs the only connection in use is its own.
C38_ScopeReleases ==
    /\ db.held = 0 => db._in_use = {}
    /\ db.held # 0 => db._in_use = {db.held}
    /\ db.last.op = "leave" =>
          /\ db.last.conn \notin db._in_use
          /\ db.last.outcome = "returns" =>
                db.last.committed /\ ~db.last.rolled_back /\ ~db.last.raised
          /\ db.last.outcome # "returns" =>
                ~db.last.committed /\ db.last.rolled_back /\ db.last.raised
    /\ db.held = 0 => Len(db._pool) = db.pool_size

\* an operation whose body raised, after one that committed: rolled back,
\* and nothing left in use
C38_Witness ==
    /\ db.last.op = "leave"
    /\ db.last.outcome = "raises"
    /\ db.last.rolled_back
    /\ db.commits = 1
    /\ db.rollbacks = 1
    /\ db._in_use = {}

\* the review passes of the calls whose mitigation loop was entered and has
\* ended, in the order the loops ended: calls that returned a Result or
\* failed to save it, and the call in flight once it is past the loop
LoopsEnded ==
    LET ended(e) == /\ ~e.hit
                    /\ e.outcome = "result" \/ e.raised_by = "save_interaction"
                    /\ e.passes # <<>>
                    /\ ReportsProblem(e.passes[1])
        past == SelectSeq(log, ended)
        now_ == IF /\ q.pc \in {"assemble", "save"}
                   /\ ReportsProblem(q.passes[1])
                THEN << q.passes >> ELSE <<>>
    IN  [i \in DOMAIN past |-> past[i].passes] \o now_

\* C39: the retry metrics hold one sample for every call whose mitigation
\* loop was entered and has ended, and none for any other call, hit or
\* miss: the count of its regenerations, between 1 and MAX_RETRIES, with the
\* flag 1 if its last review pass found no fault, and MAX_RETRIES with the
\* flag 0 if the loop was aborted.  The two lists have the same length.
C39_OneRetrySample ==
    /\ Len(metrics.retry_counts) = Len(metrics.mitigation_success_rate)
    /\ Len(metrics.retry_counts) = Len(LoopsEnded)
    /\ \A k \in DOMAIN LoopsEnded :
          LET passes == LoopsEnded[k]
              count  == metrics.retry_counts[k]
              flag   == metrics.mitigation_success_rate[k]
          IN  /\ count = Len(passes) - 1
              /\ count \in 1..MAX_RETRIES
              /\ flag = (IF ReportsProblem(passes[Len(passes)]) THEN 0 ELSE 1)
              /\ flag = 0 => count = MAX_RETRIES

\* a call whose mitigation was aborted and then a call whose first
\* regeneration cleared the flags: two samples
C39_Witness ==
    /\ metrics.retry_counts = <<MAX_RETRIES, 1>>
    /\ metrics.mitigation_success_rate = <<0, 1>>
    /\ Len(log) = 2

====
